---- MODULE Spec2Model ----
(***************************************************************************)
(* A model of the CBOR codec of shogo82148/go-cbor: the well-formedness    *)
(* checker and the value decoder of decode.go, the stream Decoder and      *)
(* Encoder, the encoder cache and the pointer encoder of encode.go.        *)
(*                                                                         *)
(* Bytes are the integers 0..255 and byte strings are sequences of them.   *)
(* A head argument is kept as the big-endian byte sequence that was read,  *)
(* so that 64-bit arguments are exact; where the code only compares an     *)
(* argument with the length of the input, ArgValue gives its value,        *)
(* saturated at ArgCap (far above every input length of the model).        *)
(***************************************************************************)
EXTENDS Integers, Sequences, FiniteSets, TLC

VARIABLES
    pc,        \* which operation of the library has run ("idle", "done", ...)
    data,      \* Unmarshal: the input bytes of the call
    target,    \* Unmarshal: the name of the Go type the destination has
    dst0,      \* Unmarshal: the destination's value before the call
    dst,       \* Unmarshal: the destination's value now
    ret,       \* Unmarshal: the error the call returned
    dstate,    \* Unmarshal: the decodeState when the call returned
    ptr,       \* Unmarshal: whether the argument was a non-nil pointer
    wf,        \* WellFormed(data) as "true" or "false", "none" before it is called
    items,     \* stream: the complete data items the source delivers, in order
    tail,      \* stream: the bytes the source delivers after them (a cut item
               \* or bytes that begin no item)
    chunks,    \* Decoder: what the source's Read calls will return, in order
    buf,       \* Decoder: dec.buf
    scanp,     \* Decoder: dec.scanp
    out,       \* Decoder: the outcome of each Decode call so far, in order
    encErr,    \* Encoder: enc.err
    sink,      \* Encoder: the bytes each Write call handed to the sink, in order
    encLog,    \* Encoder: the outcome of each Encode call so far, in order
    heap,      \* Marshal: the values the argument's pointers and references reach
    mval,      \* Marshal: the argument
    mret,      \* Marshal: the bytes and the error the call returned
    fuzz,      \* FuzzUnmarshal: the second decoding, the second encoding, t.Failed()
    cache,     \* encoderCache: for each type, the goroutine whose indirect func it holds
    done,      \* the <<goroutine, type>> pairs whose wg.Done() has run
    captured,  \* for each built pointer encoder, the elemEnc it holds
    gor,       \* the goroutines: status and the stack of calls in progress
    json,      \* Integer.UnmarshalJSON: the argument, the receiver and the error
    edn        \* DecodeEDN: the text, s.off, s.err, the buffers of the arrays in
               \* progress and the iterations its loops have made

umVars == <<data, target, dst0, dst, ret, dstate, ptr, wf>>
decVars == <<items, tail, chunks, buf, scanp, out>>
encVars == <<encErr, sink, encLog>>
marVars == <<heap, mval, mret, fuzz>>
cacheVars == <<cache, done, captured, gor>>
jsonVars == <<json>>
ednVars == <<edn>>

vars == <<pc, umVars, decVars, encVars, marVars, cacheVars, jsonVars, ednVars>>

-----------------------------------------------------------------------------
(* Bounds of the model.                                                    *)

\* elements of a generated array
MaxElems == 2
\* key/value pairs of a generated map
MaxPairs == 2
\* data items of a generated stream
MaxItems == 2
\* Read calls that deliver the bytes of a generated stream
MaxChunks == 2
\* Encode calls on one Encoder
MaxEncodes == 3
\* nested encoder calls the goroutine's stack has room for
MaxStack == 6
\* goroutines that call Marshal concurrently
MaxGoroutines == 2

\* head arguments at or above ArgCap are only known to be "larger than any input"
ArgCap == 256 * 256

-----------------------------------------------------------------------------
(* Sequences of bytes.                                                     *)

Byte == 0..255

Min(a, b) == IF a < b THEN a ELSE b

\* F applied to the value of e, computed once
With(e, F(_)) == CHOOSE res \in {F(val) : val \in {e}} : TRUE

\* s[from+1 .. to], Go's s[from:to]
Slice(s, from, to) == SubSeq(s, from + 1, to)

RECURSIVE Concat(_)
Concat(ss) ==
    IF ss = <<>> THEN <<>> ELSE Head(ss) \o Concat(Tail(ss))

\* the value of a big-endian argument, saturated at ArgCap
ArgValue(w) ==
    LET n == Len(w)
    IN  IF \E i \in 1..(n - 2) : w[i] # 0 THEN ArgCap
        ELSE (IF n >= 2 THEN w[n - 1] * 256 ELSE 0) + w[n]

\* a big-endian argument without its leading zero bytes (<<>> is zero)
RECURSIVE Normalize(_)
Normalize(w) ==
    IF w # <<>> /\ Head(w) = 0 THEN Normalize(Tail(w)) ELSE w

\* unicode/utf8.Valid, as decodeString and decodeStringIndefinite use it
RECURSIVE Utf8Valid(_)
Utf8Valid(s) ==
    LET n == Len(s)
        c(i) == i <= n /\ s[i] \in \h80..\hBF
        b == s[1]
        rest(k) == Utf8Valid(SubSeq(s, k + 1, n))
    IN  IF n = 0 THEN TRUE
        ELSE IF b < \h80 THEN rest(1)
        ELSE IF b \in \hC2..\hDF THEN c(2) /\ rest(2)
        ELSE IF b = \hE0 THEN n >= 2 /\ s[2] \in \hA0..\hBF /\ c(3) /\ rest(3)
        ELSE IF b = \hED THEN n >= 2 /\ s[2] \in \h80..\h9F /\ c(3) /\ rest(3)
        ELSE IF b \in \hE1..\hEF THEN c(2) /\ c(3) /\ rest(3)
        ELSE IF b = \hF0 THEN n >= 2 /\ s[2] \in \h90..\hBF /\ c(3) /\ c(4) /\ rest(4)
        ELSE IF b = \hF4 THEN n >= 2 /\ s[2] \in \h80..\h8F /\ c(3) /\ c(4) /\ rest(4)
        ELSE IF b \in \hF1..\hF3 THEN c(2) /\ c(3) /\ c(4) /\ rest(4)
        ELSE FALSE

-----------------------------------------------------------------------------
(* Errors.  Every error is a record of one shape; kind is the Go type of   *)
(* the error value: "nil", "SyntaxError", "UnmarshalTypeError",            *)
(* "InvalidUnmarshalError", "error" (a plain errors.New value) or "panic"  *)
(* (a run-time fault that unwinds the call).                               *)

NoErr ==
    [kind |-> "nil", msg |-> "", Value |-> "", Type |-> "", Offset |-> 0,
     Struct |-> "", Field |-> <<>>]

newSyntaxErrorAt(msg, off) ==
    [NoErr EXCEPT !.kind = "SyntaxError", !.msg = msg, !.Offset = off]

plainError(msg) ==
    [NoErr EXCEPT !.kind = "error", !.msg = msg]

UnmarshalTypeError(value, type, offset) ==
    [NoErr EXCEPT !.kind = "UnmarshalTypeError", !.Value = value, !.Type = type,
                  !.Offset = offset]

InvalidUnmarshalError(type) ==
    [NoErr EXCEPT !.kind = "InvalidUnmarshalError", !.Type = type]

panicError(msg) ==
    [NoErr EXCEPT !.kind = "panic", !.msg = msg]

-----------------------------------------------------------------------------
(* decodeState.  errorContext nil is the record with no Struct and an      *)
(* empty FieldStack, which addErrorContext treats alike.  errLog is a      *)
(* history field: every error handed to saveError, in order.               *)

newDecodeState(bytes) ==
    [data |-> bytes, off |-> 0, savedError |-> NoErr, decodingKeys |-> FALSE,
     errorContext |-> [Struct |-> "", FieldStack |-> <<>>],
     useAnyKey |-> FALSE, useInteger |-> FALSE, errLog |-> <<>>]

\* decodeState.init: the options survive, the rest is reset
initState(d, bytes) ==
    [d EXCEPT !.data = bytes, !.off = 0, !.savedError = NoErr, !.errLog = <<>>,
              !.errorContext = [Struct |-> "", FieldStack |-> <<>>],
              !.decodingKeys = FALSE]

newSyntaxError(d, msg) == newSyntaxErrorAt(msg, d.off)

isAvailable(d, n) == d.off + n <= Len(d.data)

\* the result of a read: the state after it, the error, the bytes read
Read(d, err, w) == [d |-> d, err |-> err, w |-> w]

readBytes(d, n) ==
    IF ~isAvailable(d, n)
    THEN Read(d, newSyntaxError(d, "cbor: unexpected end"), <<>>)
    ELSE Read([d EXCEPT !.off = @ + n], NoErr, Slice(d.data, d.off, d.off + n))

readByte(d) == readBytes(d, 1)
readUint16(d) == readBytes(d, 2)
readUint32(d) == readBytes(d, 4)
readUint64(d) == readBytes(d, 8)

peekByte(d) ==
    IF ~isAvailable(d, 1)
    THEN Read(d, newSyntaxError(d, "cbor: unexpected end"), <<>>)
    ELSE Read(d, NoErr, <<d.data[d.off + 1]>>)

addErrorContext(d, err) ==
    LET ctx == d.errorContext
    IN  IF (ctx.Struct # "" \/ Len(ctx.FieldStack) > 0) /\ err.kind = "UnmarshalTypeError"
        THEN [err EXCEPT !.Struct = ctx.Struct, !.Field = ctx.FieldStack]
        ELSE err

saveError(d, err) ==
    LET logged == [d EXCEPT !.errLog = Append(@, addErrorContext(d, err))]
    IN  IF d.savedError.kind = "nil"
        THEN [logged EXCEPT !.savedError = addErrorContext(d, err)]
        ELSE logged

-----------------------------------------------------------------------------
(* Go types and values.  A type is named by its Go spelling; a value is a  *)
(* record of one shape, Val(k, b, n, xs):                                  *)
(*   k   the value's Go type ("nil" for the nil interface);                *)
(*   b   bool: the value; integers: the sign, the value being -1 - xs      *)
(*       when b holds (as in Integer); slices and maps: not nil;           *)
(*   n   slices: len (xs is the backing array, cap = Len(xs));             *)
(*       arrays [n]T: the length; Simple: the number; Tag: the number;     *)
(*   xs  integers: the magnitude, big-endian without leading zeros;        *)
(*       strings: the bytes; slices, arrays and structs: the elements or   *)
(*       fields; maps: the <<key, value>> pairs in insertion order.        *)
(*   A pointer has b: not nil and n: the address of its element in the     *)
(*   heap, a sequence of values; the value "ref" with n = a is the slice   *)
(*   or the map stored at address a, shared by everything that holds it.   *)
(* An interface slot holds the dynamic value itself.                       *)

Val(k, b, n, xs) == [k |-> k, b |-> b, n |-> n, xs |-> xs]

NilVal == Val("nil", FALSE, 0, <<>>)
IntVal(t, neg, mag) == Val(t, neg, 0, mag)
StringVal(s) == Val("string", FALSE, 0, s)
BoolVal(b) == Val("bool", b, 0, <<>>)
BytesVal(s) == Val("[]uint8", TRUE, Len(s), s)
SliceVal(t, xs) == Val(t, TRUE, Len(xs), xs)
ArrayVal(t, xs) == Val(t, FALSE, Len(xs), xs)
MapVal(t, pairs) == Val(t, TRUE, 0, pairs)
StructVal(t, fields) == Val(t, FALSE, 0, fields)
SimpleVal(n) == Val("Simple", FALSE, n, <<>>)
UndefinedVal == Val("undefined", FALSE, 0, <<>>)
PtrVal(t, a) == Val(t, a # 0, a, <<>>)
Ref(a) == Val("ref", TRUE, a, <<>>)
\* a Tag keeps its number as a magnitude: xs = <<number, content>>
TagVal(mag, content) == Val("Tag", FALSE, 0, <<mag, content>>)
\* time.Unix(sec, nsec) with 0 <= nsec < 1e9 and sec = mag or -mag; the zero
\* time.Time{} is the value with n = -1
TimeVal(neg, mag, nsec) == Val("time.Time", neg, nsec, mag)
\* the *big.Float of value mant * 2^exp, mant = mag or -mag
BigFloatVal(t, neg, mag, exp) ==
    Val(t, neg /\ mag # <<>>, IF mag = <<>> THEN 0 ELSE exp, mag)
\* a float64 is the eight bytes of math.Float64bits, most significant first
FloatVal(bits) == Val("float64", FALSE, 0, bits)

\* someInterface is the one-method interface of the tests; the structs are
\*   FooA          struct { A int; B string }
\*   FooB          struct { Alg int `cbor:"1,keyasint,omitempty"`;
\*                          Kit []byte `cbor:"4,keyasint,omitempty"` }
\*   PointerCycle  struct { Ptr *PointerCycle }
Kind(t) ==
    CASE t \in {"any", "someInterface"} -> "Interface"
      [] t \in {"int", "int8", "int64"} -> "Int"
      [] t \in {"uint8", "uint64"} -> "Uint"
      [] t = "float64" -> "Float"
      [] t = "string" -> "String"
      [] t = "bool" -> "Bool"
      [] t \in {"[]uint8", "[]int64", "[]any"} -> "Slice"
      [] t \in {"map[string]int64", "map[string]any", "map[any]any"} -> "Map"
      [] t \in {"FooA", "FooB", "PointerCycle", "time.Time", "big.Float"} -> "Struct"
      [] t \in {"*int64", "*PointerCycle", "*big.Float"} -> "Ptr"
      [] t = "chan int" -> "Chan"
      [] OTHER -> "Other"

Elem(t) ==
    CASE t = "[]uint8" -> "uint8"
      [] t \in {"[]int64", "map[string]int64"} -> "int64"
      [] t \in {"[]any", "map[string]any", "map[any]any"} -> "any"

Key(t) ==
    CASE t \in {"map[string]int64", "map[string]any"} -> "string"
      [] t = "map[any]any" -> "any"

NumMethod(t) == IF t = "someInterface" THEN 1 ELSE 0

\* the size of an integer type in bytes
IntSize(t) == IF t \in {"int8", "uint8"} THEN 1 ELSE 8

\* the fields of a struct type as its declaration gives them, tags parsed:
\* utf8 is the field's Go name in bytes, tagName the name the tag gives (with
\* keyasint, the integer that name spells, as a magnitude)
StructDecl(t) ==
    CASE t = "FooA" ->
           << [name |-> "A", utf8 |-> <<\h41>>, tagName |-> <<>>, keyasint |-> FALSE,
               omitempty |-> FALSE, toarray |-> FALSE, exported |-> TRUE,
               type |-> "int"],
              [name |-> "B", utf8 |-> <<\h42>>, tagName |-> <<>>, keyasint |-> FALSE,
               omitempty |-> FALSE, toarray |-> FALSE, exported |-> TRUE,
               type |-> "string"] >>
      [] t = "FooB" ->
           << [name |-> "Alg", utf8 |-> <<\h41, \h6C, \h67>>, tagName |-> <<1>>,
               keyasint |-> TRUE, omitempty |-> TRUE, toarray |-> FALSE,
               exported |-> TRUE, type |-> "int"],
              [name |-> "Kit", utf8 |-> <<\h4B, \h69, \h74>>, tagName |-> <<4>>,
               keyasint |-> TRUE, omitempty |-> TRUE, toarray |-> FALSE,
               exported |-> TRUE, type |-> "[]uint8"] >>
      [] t = "PointerCycle" ->
           << [name |-> "Ptr", utf8 |-> <<\h50, \h74, \h72>>, tagName |-> <<>>,
               keyasint |-> FALSE, omitempty |-> FALSE, toarray |-> FALSE,
               exported |-> TRUE, type |-> "*PointerCycle"] >>
      [] t = "time.Time" ->
           [i \in 1..3 |->
               [name |-> <<"wall", "ext", "loc">>[i], utf8 |-> <<>>, tagName |-> <<>>,
                keyasint |-> FALSE, omitempty |-> FALSE, toarray |-> FALSE,
                exported |-> FALSE, type |-> "uint64"]]
      [] t = "big.Float" ->
           [i \in 1..7 |->
               [name |-> <<"prec", "mode", "acc", "form", "neg", "mant", "exp">>[i],
                utf8 |-> <<>>, tagName |-> <<>>, keyasint |-> FALSE,
                omitempty |-> FALSE, toarray |-> FALSE, exported |-> FALSE,
                type |-> "uint64"]]

RECURSIVE Zero(_)
Zero(t) ==
    CASE Kind(t) = "Interface" -> NilVal
      [] Kind(t) \in {"Int", "Uint"} -> IntVal(t, FALSE, <<>>)
      [] Kind(t) = "Float" -> FloatVal(<<0, 0, 0, 0, 0, 0, 0, 0>>)
      [] Kind(t) = "String" -> StringVal(<<>>)
      [] Kind(t) = "Bool" -> BoolVal(FALSE)
      [] Kind(t) = "Slice" -> Val(t, FALSE, 0, <<>>)
      [] Kind(t) = "Map" -> Val(t, FALSE, 0, <<>>)
      [] Kind(t) \in {"Ptr", "Chan"} -> Val(t, FALSE, 0, <<>>)
      [] t = "time.Time" -> TimeVal(FALSE, <<>>, -1)
      [] t = "big.Float" -> BigFloatVal(t, FALSE, <<>>, 0)
      [] Kind(t) = "Struct" /\ t \notin {"time.Time", "big.Float"} ->
           StructVal(t, [i \in 1..Len(StructDecl(t)) |-> Zero(StructDecl(t)[i].type)])

\* the visible elements of a slice
Elems(v) == SubSeq(v.xs, 1, v.n)

-----------------------------------------------------------------------------
(* Integer arithmetic on magnitudes.                                       *)

Pad8(w) == [i \in 1..(8 - Len(w)) |-> 0] \o w

Complement(w) == [i \in 1..Len(w) |-> 255 - w[i]]

\* a magnitude above math.MaxInt64
GtMaxInt64(mag) == Len(mag) = 8 /\ mag[1] >= 128

\* reflect.Value.OverflowInt for a non-negative x = mag, or for x = -1 - mag
OverflowInt(t, mag) ==
    Len(mag) > IntSize(t) \/ (Len(mag) = IntSize(t) /\ mag[1] >= 128)

\* reflect.Value.OverflowUint
OverflowUint(t, mag) == Len(mag) > IntSize(t)

\* reflect.Value.SetInt(int64(^w)): the low bytes of ^w, as a signed integer
SetIntOfComplement(t, w) ==
    LET low == SubSeq(Complement(Pad8(w)), 9 - IntSize(t), 8)
    IN  IF low[1] >= 128
        THEN IntVal(t, TRUE, Normalize(Complement(low)))
        ELSE IntVal(t, FALSE, Normalize(low))

-----------------------------------------------------------------------------
(* The value decoder of decode.go.  A decoding function takes the          *)
(* decodeState d, the type t of the destination and its value v, and gives *)
(* Res(d', v', err): the state and the destination after it, and the error *)
(* it returned.                                                            *)

Res(d, v, err) == [d |-> d, v |-> v, err |-> err]

\* d.saveError(&UnmarshalTypeError{Value: value, Type: v.Type(), Offset: start}); return nil
typeMismatch(d, value, t, start, v) ==
    Res(saveError(d, UnmarshalTypeError(value, t, start)), v, NoErr)

decodePositiveInt(d, start, w, t, v) ==
    LET mag == Normalize(w)
    IN  CASE t = "Integer" -> Res(d, Val("Integer", FALSE, 0, mag), NoErr)
          [] Kind(t) = "Int" ->
               IF GtMaxInt64(mag) \/ OverflowInt(t, mag)
               THEN typeMismatch(d, "integer", t, start, v)
               ELSE Res(d, IntVal(t, FALSE, mag), NoErr)
          [] Kind(t) = "Uint" ->
               IF OverflowUint(t, mag)
               THEN typeMismatch(d, "integer", t, start, v)
               ELSE Res(d, IntVal(t, FALSE, mag), NoErr)
          [] Kind(t) = "Interface" ->
               IF NumMethod(t) # 0 THEN typeMismatch(d, "integer", t, start, v)
               ELSE IF d.useInteger THEN Res(d, Val("Integer", FALSE, 0, mag), NoErr)
               ELSE IF GtMaxInt64(mag) THEN typeMismatch(d, "integer", t, start, v)
               ELSE Res(d, IntVal("int64", FALSE, mag), NoErr)
          [] OTHER -> typeMismatch(d, "integer", t, start, v)

\* the Int case records the overflow and stores the truncated value all the same
decodeNegativeInt(d, start, w, t, v) ==
    LET mag == Normalize(w)
    IN  CASE t = "Integer" -> Res(d, Val("Integer", TRUE, 0, mag), NoErr)
          [] Kind(t) = "Int" ->
               IF GtMaxInt64(mag) \/ OverflowInt(t, mag)
               THEN typeMismatch(d, "integer", t, start, SetIntOfComplement(t, w))
               ELSE Res(d, SetIntOfComplement(t, w), NoErr)
          [] Kind(t) = "Interface" ->
               IF NumMethod(t) # 0 THEN typeMismatch(d, "integer", t, start, v)
               ELSE IF d.useInteger THEN Res(d, Val("Integer", TRUE, 0, mag), NoErr)
               ELSE IF GtMaxInt64(mag) THEN typeMismatch(d, "integer", t, start, v)
               ELSE Res(d, IntVal("int64", TRUE, mag), NoErr)
          [] OTHER -> typeMismatch(d, "integer", t, start, v)

\* The fields of the float64 whose bits are the eight bytes w: the sign, the
\* eleven exponent bits, and the 52 fraction bits as their upper and their
\* lower 26 bits.
Float64Fields(w) ==
    [sign |-> w[1] \div 128,
     exp |-> (w[1] % 128) * 16 + w[2] \div 16,
     hi |-> (w[2] % 16) * 2^22 + w[3] * 2^14 + w[4] * 64 + w[5] \div 4,
     lo |-> (w[5] % 4) * 2^24 + w[6] * 2^16 + w[7] * 256 + w[8]]

\* math.Float64frombits(sign | exp<<52 | frac), frac = hi * 2^26 + lo
Float64frombits(sign, exp, hi, lo) ==
    << sign * 128 + exp \div 16, (exp % 16) * 16 + hi \div 2^22,
       (hi \div 2^14) % 256, (hi \div 64) % 256, (hi % 64) * 4 + lo \div 2^24,
       (lo \div 2^16) % 256, (lo \div 256) % 256, lo % 256 >>

\* math.IsNaN
IsNaN(w) ==
    Float64Fields(w).exp = \h7FF /\ (Float64Fields(w).hi # 0 \/ Float64Fields(w).lo # 0)

\* bits.Len64
RECURSIVE Len64(_)
Len64(n) == IF n = 0 THEN 0 ELSE 1 + Len64(n \div 2)

decodeFloat(d, start, f, t, v) ==
    CASE Kind(t) = "Float" -> Res(d, FloatVal(f), NoErr)
      [] Kind(t) = "Interface" ->
           IF NumMethod(t) # 0 THEN typeMismatch(d, "integer", t, start, v)
           ELSE Res(d, FloatVal(f), NoErr)
      [] OTHER -> typeMismatch(d, "integer", t, start, v)

\* w is the two bytes of the half-precision value; a subnormal is normalised
\* by the length l of its fraction, every NaN becomes the one with frac = 1<<51
decodeFloat16(d, start, w, t, v) ==
    LET sign == w[1] \div 128
        exp == (w[1] % 128) \div 4
        frac == (w[1] % 4) * 256 + w[2]
        l == Len64(frac)
    IN  decodeFloat(d, start,
          CASE exp = 0 /\ l = 0 -> Float64frombits(sign, 0, 0, 0)
            [] exp = 0 /\ l # 0 ->
                 Float64frombits(sign, 1023 - (15 + 10) + l,
                                 (frac - 2^(l - 1)) * 2^(27 - l), 0)
            [] exp = \h1F ->
                 Float64frombits(sign, \h7FF, IF frac # 0 THEN 2^25 ELSE 0, 0)
            [] OTHER -> Float64frombits(sign, exp + (1023 - 15), frac * 2^16, 0),
          t, v)

\* float64(math.Float32frombits(w)): the conversion is exact; it normalises a
\* subnormal and sets the quiet bit of a NaN
decodeFloat32(d, start, w, t, v) ==
    LET sign == w[1] \div 128
        exp == (w[1] % 128) * 2 + w[2] \div 128
        frac == (w[2] % 128) * 2^16 + w[3] * 256 + w[4]
        l == Len64(frac)
    IN  decodeFloat(d, start,
          CASE exp = 0 /\ l = 0 -> Float64frombits(sign, 0, 0, 0)
            [] exp = 0 /\ l # 0 ->
                 Float64frombits(sign, 1023 - (127 + 23) + l,
                                 (frac - 2^(l - 1)) * 2^(27 - l), 0)
            [] exp = \hFF /\ frac = 0 -> Float64frombits(sign, \h7FF, 0, 0)
            [] exp = \hFF /\ frac # 0 ->
                 Float64frombits(sign, \h7FF, (frac % 2^22) * 8 + 2^25, 0)
            [] OTHER -> Float64frombits(sign, exp + (1023 - 127), frac * 8, 0),
          t, v)

decodeFloat64(d, start, w, t, v) == decodeFloat(d, start, w, t, v)

setBytes(d, start, bytes, t, v) ==
    CASE Kind(t) = "Slice" ->
           IF Kind(Elem(t)) # "Uint" \/ IntSize(Elem(t)) # 1
           THEN typeMismatch(d, "bytes", t, start, v)
           ELSE Res(d, Val(t, TRUE, Len(bytes), bytes), NoErr)
      [] Kind(t) = "Interface" ->
           IF NumMethod(t) # 0 THEN typeMismatch(d, "bytes", t, start, v)
           ELSE IF d.decodingKeys THEN Res(d, ArrayVal("[n]uint8", bytes), NoErr)
           ELSE Res(d, BytesVal(bytes), NoErr)
      [] OTHER -> typeMismatch(d, "bytes", t, start, v)

setString(d, start, str, t, v) ==
    CASE Kind(t) = "String" -> Res(d, Val(t, FALSE, 0, str), NoErr)
      [] Kind(t) = "Interface" ->
           IF NumMethod(t) # 0 THEN typeMismatch(d, "string", t, start, v)
           ELSE Res(d, StringVal(str), NoErr)
      [] OTHER -> typeMismatch(d, "string", t, start, v)

decodeBytes(d, start, n, t, v) ==
    IF ~isAvailable(d, n)
    THEN Res(d, v, newSyntaxError(d, "cbor: unexpected end"))
    ELSE setBytes([d EXCEPT !.off = @ + n], start, Slice(d.data, d.off, d.off + n), t, v)

decodeString(d, start, n, t, v) ==
    LET str == Slice(d.data, d.off, d.off + n)
        d1 == [d EXCEPT !.off = @ + n]
    IN  IF ~isAvailable(d, n)
        THEN Res(d, v, newSyntaxError(d, "cbor: unexpected end"))
        ELSE IF ~Utf8Valid(str)
        THEN Res(d1, v, newSyntaxError(d1, "cbor: invalid UTF-8 string"))
        ELSE setString(d1, start, str, t, v)

\* the argument that follows an initial byte whose low five bits are ai
readArg(d, ai) ==
    CASE ai < 24 -> Read(d, NoErr, <<ai>>)
      [] ai = 24 -> readByte(d)
      [] ai = 25 -> readUint16(d)
      [] ai = 26 -> readUint32(d)
      [] ai = 27 -> readUint64(d)

\* the chunk loop of decodeBytesIndefinite (base = 0x40) and of
\* decodeStringIndefinite (base = 0x60); acc is what the chunks gave so far
RECURSIVE chunkLoop(_, _, _)
chunkLoop(d, base, acc) ==
    With(readByte(d), LAMBDA r :
      IF r.err.kind # "nil" THEN Read(r.d, r.err, acc)
      ELSE IF r.w[1] = \hFF THEN Read(r.d, NoErr, acc)
      ELSE IF r.w[1] < base \/ r.w[1] > base + \h1B
      THEN Read(r.d, newSyntaxError(r.d, "cbor: invalid byte string chunk type"), acc)
      ELSE With(readArg(r.d, r.w[1] - base), LAMBDA a :
        IF a.err.kind # "nil" THEN Read(a.d, a.err, acc)
        ELSE IF ~isAvailable(a.d, ArgValue(a.w))
        THEN Read(a.d, newSyntaxError(a.d, "cbor: unexpected end"), acc)
        ELSE chunkLoop([a.d EXCEPT !.off = @ + ArgValue(a.w)], base,
                       acc \o Slice(a.d.data, a.d.off, a.d.off + ArgValue(a.w)))))

decodeBytesIndefinite(d, start, t, v) ==
    With(chunkLoop(d, \h40, <<>>), LAMBDA r :
      IF r.err.kind # "nil" THEN Res(r.d, v, r.err)
      ELSE setBytes(r.d, start, r.w, t, v))

decodeStringIndefinite(d, start, t, v) ==
    With(chunkLoop(d, \h60, <<>>), LAMBDA r :
      IF r.err.kind # "nil" THEN Res(r.d, v, r.err)
      ELSE IF ~Utf8Valid(r.w)
      THEN Res(r.d, v, newSyntaxError(r.d, "cbor: invalid UTF-8 string"))
      ELSE setString(r.d, start, r.w, t, v))

setSimple(d, start, n, t, v) ==
    IF t = "Simple" THEN Res(d, SimpleVal(n), NoErr)
    ELSE IF Kind(t) = "Interface"
    THEN IF NumMethod(t) # 0 THEN typeMismatch(d, "simple", t, start, v)
         ELSE Res(d, SimpleVal(n), NoErr)
    ELSE typeMismatch(d, "simple", t, start, v)

setBool(d, start, b, t, v) ==
    CASE Kind(t) = "Bool" -> Res(d, Val(t, b, 0, <<>>), NoErr)
      [] Kind(t) = "Interface" ->
           IF NumMethod(t) # 0 THEN typeMismatch(d, "bool", t, start, v)
           ELSE Res(d, BoolVal(b), NoErr)
      [] OTHER -> typeMismatch(d, "bool", t, start, v)

setNull(d, start, t, v) ==
    IF Kind(t) \in {"Interface", "Ptr", "Map", "Slice"}
    THEN Res(d, Zero(t), NoErr)
    ELSE typeMismatch(d, "null", t, start, v)

\* storing Undefined in an interface that has methods faults in reflect's Set
setUndefined(d, start, t, v) ==
    CASE Kind(t) = "Interface" ->
           IF NumMethod(t) # 0
           THEN Res(d, v, panicError("reflect.Set: value is not assignable"))
           ELSE Res(d, UndefinedVal, NoErr)
      [] Kind(t) \in {"Ptr", "Map", "Slice"} -> Res(d, Zero(t), NoErr)
      [] OTHER -> typeMismatch(d, "undefined", t, start, v)

-----------------------------------------------------------------------------
(* The well-formedness checker of decode.go.                               *)

\* the result of a check: the state after it and the error
Chk(d, err) == [d |-> d, err |-> err]

\* the simple values that have a case of their own in the switch statements
SimpleCases ==
    {\hE0, \hE1, \hE2, \hE3, \hE4, \hE5, \hE6, \hE7, \hE8, \hEA, \hEB, \hEC,
     \hED, \hEE, \hEF, \hF0, \hF3}

RECURSIVE checkWellFormedChild(_)
RECURSIVE checkItems(_, _)
RECURSIVE checkChunks(_)
RECURSIVE checkUntilBreak(_, _)

\* for i := 0; i < n; i++ { checkWellFormedChild }
checkItems(d, n) ==
    IF n = 0 THEN Chk(d, NoErr)
    ELSE With(checkWellFormedChild(d), LAMBDA r :
           IF r.err.kind # "nil" THEN r ELSE checkItems(r.d, n - 1))

\* the loop of case 0x5f
checkChunks(d) ==
    With(peekByte(d), LAMBDA p :
      IF p.err.kind # "nil" THEN Chk(d, p.err)
      ELSE IF p.w[1] = \hFF THEN Chk([d EXCEPT !.off = @ + 1], NoErr)
      ELSE IF p.w[1] < \h40 \/ p.w[1] > \h5B
      THEN Chk(d, plainError("cbor: invalid byte string"))
      ELSE With(checkWellFormedChild(d), LAMBDA r :
             IF r.err.kind # "nil" THEN r ELSE checkChunks(r.d)))

\* the loops of case 0x9f (per = 1) and of case 0xbf (per = 2)
checkUntilBreak(d, per) ==
    With(peekByte(d), LAMBDA p :
      IF p.err.kind # "nil" THEN Chk(d, p.err)
      ELSE IF p.w[1] = \hFF THEN Chk([d EXCEPT !.off = @ + 1], NoErr)
      ELSE With(checkItems(d, per), LAMBDA r :
             IF r.err.kind # "nil" THEN r ELSE checkUntilBreak(r.d, per)))

\* the cases that read an argument and then n items for each unit of it
checkCounted(d, ai, per) ==
    With(readArg(d, ai), LAMBDA a :
      IF a.err.kind # "nil" THEN Chk(a.d, a.err)
      ELSE checkItems(a.d, per * ArgValue(a.w)))

\* the cases of a definite-length byte or text string
checkSkipped(d, ai) ==
    With(readArg(d, ai), LAMBDA a :
      IF a.err.kind # "nil" THEN Chk(a.d, a.err)
      ELSE IF ~isAvailable(a.d, ArgValue(a.w))
      THEN Chk(a.d, newSyntaxError(a.d, "cbor: unexpected end"))
      ELSE Chk([a.d EXCEPT !.off = @ + ArgValue(a.w)], NoErr))

checkWellFormedChild(d) ==
    With(readByte(d), LAMBDA h :
      IF h.err.kind # "nil" THEN Chk(h.d, h.err)
      ELSE With(h.w[1], LAMBDA typ :
        CASE typ \in \h00..\h1B \/ typ \in \h20..\h3B ->
               With(readArg(h.d, typ % 32), LAMBDA a : Chk(a.d, a.err))
          [] typ \in \h40..\h5B \/ typ \in \h60..\h7B -> checkSkipped(h.d, typ % 32)
          [] typ = \h5F -> checkChunks(h.d)
          [] typ = \h7F ->
               With(decodeStringIndefinite(h.d, h.d.off - 1, "string", StringVal(<<>>)),
                    LAMBDA str : Chk(str.d, str.err))
          [] typ \in \h80..\h9B -> checkCounted(h.d, typ % 32, 1)
          [] typ = \h9F -> checkUntilBreak(h.d, 1)
          [] typ \in \hA0..\hBB -> checkCounted(h.d, typ % 32, 2)
          [] typ = \hBF -> checkUntilBreak(h.d, 2)
          [] typ \in \hC0..\hDB ->
               With(readArg(h.d, typ % 32), LAMBDA a :
                 IF a.err.kind # "nil" THEN Chk(a.d, a.err) ELSE checkItems(a.d, 1))
          [] typ \in SimpleCases \/ typ \in \hF4..\hF7 -> Chk(h.d, NoErr)
          [] typ = \hF8 ->
               With(readByte(h.d), LAMBDA f8 :
                 IF f8.err.kind # "nil" THEN Chk(f8.d, f8.err)
                 ELSE IF f8.w[1] < \h20
                 THEN Chk(f8.d, newSyntaxError(f8.d, "cbor: invalid simple value"))
                 ELSE Chk(f8.d, NoErr))
          [] typ \in \hF9..\hFB ->
               With(readBytes(h.d, 2 ^ (typ - \hF8)), LAMBDA f : Chk(f.d, f.err))
          [] OTHER -> Chk(h.d, newSyntaxError(h.d, "cbor: unknown initial byte"))))

checkWellFormed(d) ==
    With(checkWellFormedChild(d), LAMBDA r :
      IF r.err.kind # "nil" THEN r
      ELSE IF r.d.off # Len(r.d.data)
      THEN Chk(r.d, newSyntaxError(r.d, "cbor: unexpected data after top-level value"))
      ELSE r)

WellFormed(bytes) == checkWellFormed(newDecodeState(bytes)).err.kind = "nil"

-----------------------------------------------------------------------------
(* Heads of encode.go and the struct types of struct.go.                   *)

\* the big-endian bytes of a length
LenBytes(n) == Normalize(<<n \div 256, n % 256>>)

\* encodeState.writeUint, the argument given by its magnitude bytes
writeUint(major, mag) ==
    LET bits == major * 32
    IN  CASE Len(mag) = 0 -> <<bits>>
          [] Len(mag) = 1 /\ mag[1] < 24 -> <<bits + mag[1]>>
          [] Len(mag) = 1 /\ mag[1] >= 24 -> <<bits + 24>> \o mag
          [] Len(mag) = 2 -> <<bits + 25>> \o mag
          [] Len(mag) \in 3..4 -> <<bits + 26>> \o SubSeq(Pad8(mag), 5, 8)
          [] OTHER -> <<bits + 27>> \o Pad8(mag)

\* encodeState.encodeInt of the integer value v
encodeInt(v) == writeUint(IF v.b THEN 1 ELSE 0, v.xs)

\* encodeState.encodeString
encodeString(str) == writeUint(3, LenBytes(Len(str))) \o str

\* bytes.Compare(a, b) < 0
RECURSIVE BytesLess(_, _)
BytesLess(a, b) ==
    IF b = <<>> THEN FALSE
    ELSE IF a = <<>> THEN TRUE
    ELSE IF Head(a) # Head(b) THEN Head(a) < Head(b)
    ELSE BytesLess(Tail(a), Tail(b))

\* slices.SortStableFunc(fields, cmpFieldKey), by insertion
RECURSIVE InsertField(_, _)
InsertField(sorted, f) ==
    IF sorted = <<>> THEN <<f>>
    ELSE IF BytesLess(f.encodedKey, sorted[Len(sorted)].encodedKey)
    THEN Append(InsertField(SubSeq(sorted, 1, Len(sorted) - 1), f), sorted[Len(sorted)])
    ELSE Append(sorted, f)

RECURSIVE SortFields(_)
SortFields(fields) ==
    IF fields = <<>> THEN <<>>
    ELSE InsertField(SortFields(SubSeq(fields, 1, Len(fields) - 1)), fields[Len(fields)])

\* the field of newStructType for the i-th declared field: with keyasint the
\* key is the tag's integer, else the tag's name or the field's Go name
newField(decl, i) ==
    LET f == decl[i]
        key == IF f.keyasint THEN IntVal("int64", FALSE, Normalize(f.tagName))
               ELSE IF f.tagName = <<>> THEN StringVal(f.utf8)
               ELSE StringVal(f.tagName)
    IN  [name |-> f.name, key |-> key,
         encodedKey |-> IF f.keyasint THEN encodeInt(key) ELSE encodeString(key.xs),
         omitempty |-> f.omitempty, index |-> i, type |-> f.type]

newStructType(t) ==
    LET decl == StructDecl(t)
        toArray == \E i \in 1..Len(decl) : decl[i].toarray /\ decl[i].name = "_"
        exported == SelectSeq([i \in 1..Len(decl) |-> newField(decl, i)],
                              LAMBDA f : decl[f.index].exported)
    IN  [toArray |-> toArray,
         fields |-> IF toArray THEN exported ELSE SortFields(exported)]

cachedStructType(t) == newStructType(t)

\* st.maps[key]: the position in st.fields of the field the key names, or 0;
\* of two fields with one key the later one of st.fields is the one stored
FieldOfKey(st, key) ==
    LET hits == {i \in 1..Len(st.fields) : st.fields[i].key = key}
    IN  IF hits = {} THEN 0 ELSE CHOOSE i \in hits : \A j \in hits : j <= i

\* whether a value can be a key of a Go map (else the map operation faults)
RECURSIVE Hashable(_)
Hashable(v) ==
    CASE v.k \in {"[]uint8", "[]int64", "[]any", "map[string]int64",
                  "map[string]any", "map[any]any"} -> FALSE
      [] v.k \in {"[n]any", "FooA", "FooB"} -> \A i \in 1..Len(v.xs) : Hashable(v.xs[i])
      [] v.k = "Tag" -> Hashable(v.xs[2])
      [] OTHER -> TRUE

\* reflect.Value.SetMapIndex and m[key] = elem on the pairs of a map
SetMapIndex(pairs, key, elem) ==
    IF \E i \in 1..Len(pairs) : pairs[i][1] = key
    THEN [i \in 1..Len(pairs) |-> IF pairs[i][1] = key THEN <<key, elem>> ELSE pairs[i]]
    ELSE Append(pairs, <<key, elem>>)

-----------------------------------------------------------------------------
(* Arrays, maps and tags of the value decoder.  The loops give             *)
(* Loop(d, xs, err): the state, the elements, fields or pairs decoded so   *)
(* far, and the error that ended the loop.  A definite loop counts left    *)
(* down to 0; left = -1 is the indefinite loop, which ends at the break.   *)

Loop(d, xs, err) == [d |-> d, xs |-> xs, err |-> err]

Next1(left) == IF left < 0 THEN left ELSE left - 1

RECURSIVE decodeReflectValue(_, _, _)
RECURSIVE sliceLoop(_, _, _, _, _)
RECURSIVE indefiniteSliceLoop(_, _, _, _)
RECURSIVE indefiniteAnyLoop(_, _)
RECURSIVE structArrayLoop(_, _, _, _, _)
RECURSIVE mapLoop(_, _, _, _, _)
RECURSIVE structMapLoop(_, _, _, _, _)
RECURSIVE decodeArray(_, _, _, _, _)
RECURSIVE decodeArrayIndefinite(_, _, _, _)
RECURSIVE decodeMapOf(_, _, _, _, _)
RECURSIVE decodeTag(_, _, _, _, _)
RECURSIVE decodeBigFloat(_, _, _, _)
RECURSIVE decodeKnownTag(_, _, _, _, _)

\* for i < n { decodeReflectValue(v.Index(i)) }; i counts from 1
sliceLoop(d, et, xs, i, n) ==
    IF i > n THEN Loop(d, xs, NoErr)
    ELSE With(decodeReflectValue(d, et, xs[i]), LAMBDA r :
           IF r.err.kind # "nil" THEN Loop(r.d, [xs EXCEPT ![i] = r.v], r.err)
           ELSE sliceLoop(r.d, et, [xs EXCEPT ![i] = r.v], i + 1, n))

\* the Slice loop of decodeArrayIndefinite; i elements are decoded.  v1 is v
\* grown to hold element i + 1: Grow(1) is taken to add exactly one zero
\* element of capacity
indefiniteSliceLoop(d, t, v, i) ==
    With(peekByte(d), LAMBDA p :
      IF p.err.kind # "nil" THEN Res(d, v, p.err)
      ELSE IF p.w[1] = \hFF
      THEN Res([d EXCEPT !.off = @ + 1],
               IF i = 0 THEN Val(t, TRUE, 0, <<>>) ELSE [v EXCEPT !.n = i], NoErr)
      ELSE With(IF i >= Len(v.xs)
                THEN [v EXCEPT !.b = TRUE, !.xs = Append(@, Zero(Elem(t)))]
                ELSE v, LAMBDA grown :
        With(IF i >= grown.n THEN [grown EXCEPT !.n = i + 1] ELSE grown, LAMBDA v1 :
          With(decodeReflectValue(d, Elem(t), v1.xs[i + 1]), LAMBDA r :
            IF r.err.kind # "nil" THEN Res(r.d, [v1 EXCEPT !.xs[i + 1] = r.v], r.err)
            ELSE indefiniteSliceLoop(r.d, t, [v1 EXCEPT !.xs[i + 1] = r.v], i + 1)))))

\* the Interface loop of decodeArrayIndefinite
indefiniteAnyLoop(d, acc) ==
    With(peekByte(d), LAMBDA p :
      IF p.err.kind # "nil" THEN Loop(d, acc, p.err)
      ELSE IF p.w[1] = \hFF THEN Loop([d EXCEPT !.off = @ + 1], acc, NoErr)
      ELSE With(decodeReflectValue(d, "any", NilVal), LAMBDA r :
             IF r.err.kind # "nil" THEN Loop(r.d, acc, r.err)
             ELSE indefiniteAnyLoop(r.d, Append(acc, r.v))))

\* fill zero values for the fields from position i + 1 of st.fields on
fillZero(st, xs, i) ==
    [k \in 1..Len(xs) |->
        IF \E j \in (i + 1)..Len(st.fields) : st.fields[j].index = k
        THEN Zero(st.fields[CHOOSE j \in (i + 1)..Len(st.fields) : st.fields[j].index = k].type)
        ELSE xs[k]]

\* the Struct loops of decodeArray and decodeArrayIndefinite; i items are done
structArrayLoop(d, st, xs, i, left) ==
    LET p == peekByte(d)
    IN  IF left < 0 /\ p.err.kind # "nil" THEN Loop(d, xs, p.err)
        ELSE IF left < 0 /\ p.w[1] = \hFF
        THEN Loop([d EXCEPT !.off = @ + 1], fillZero(st, xs, i), NoErr)
        ELSE IF left = 0 THEN Loop(d, fillZero(st, xs, i), NoErr)
        ELSE IF i < Len(st.fields)
        THEN With(st.fields[i + 1], LAMBDA f :
               With(decodeReflectValue(d, f.type, xs[f.index]), LAMBDA r :
                 IF r.err.kind # "nil" THEN Loop(r.d, [xs EXCEPT ![f.index] = r.v], r.err)
                 ELSE structArrayLoop(r.d, st, [xs EXCEPT ![f.index] = r.v], i + 1,
                                      Next1(left))))
        ELSE With(checkWellFormedChild(d), LAMBDA c :
               IF c.err.kind # "nil" THEN Loop(c.d, xs, c.err)
               ELSE structArrayLoop(c.d, st, xs, i + 1, Next1(left)))

\* the Struct case of decodeArray (left = n) and of decodeArrayIndefinite
\* (left = -1): without toarray the mismatch is recorded and the loop runs
structArray(d, mismatch, left, t, v) ==
    With(cachedStructType(t), LAMBDA st :
      With(IF st.toArray THEN d ELSE mismatch, LAMBDA d1 :
        With(structArrayLoop(d1, st, v.xs, 0, left), LAMBDA sa :
          Res(sa.d, StructVal(t, sa.xs), sa.err))))

decodeArray(d, start, n, t, v) ==
    With(saveError(d, UnmarshalTypeError("array", t, start)), LAMBDA mismatch :
      CASE Kind(t) = "Slice" ->
             With(IF Len(v.xs) < n \/ (Len(v.xs) = 0 /\ n = 0)
                  THEN [i \in 1..n |-> Zero(Elem(t))] ELSE v.xs, LAMBDA xs :
               With(sliceLoop(d, Elem(t), xs, 1, n), LAMBDA sl :
                 Res(sl.d, Val(t, TRUE, n, sl.xs), sl.err)))
        [] Kind(t) = "Interface" ->
             With(IF NumMethod(t) # 0 THEN mismatch ELSE d, LAMBDA d1 :
               With(sliceLoop(d1, "any", [i \in 1..n |-> NilVal], 1, n), LAMBDA an :
                 IF an.err.kind # "nil" THEN Res(an.d, v, an.err)
                 ELSE IF NumMethod(t) # 0
                 THEN Res(an.d, v, panicError("reflect.Set: value is not assignable"))
                 ELSE Res(an.d, IF d.decodingKeys THEN ArrayVal("[n]any", an.xs)
                                ELSE SliceVal("[]any", an.xs), NoErr)))
        [] Kind(t) = "Struct" -> structArray(d, mismatch, n, t, v)
        [] OTHER -> Res(mismatch, v, NoErr))

decodeArrayIndefinite(d, start, t, v) ==
    With(saveError(d, UnmarshalTypeError("array", t, start)), LAMBDA mismatch :
      CASE Kind(t) = "Slice" -> indefiniteSliceLoop(d, t, v, 0)
        [] Kind(t) = "Interface" ->
             With(IF NumMethod(t) # 0 THEN mismatch ELSE d, LAMBDA d1 :
               With(indefiniteAnyLoop(d1, <<>>), LAMBDA an :
                 IF an.err.kind # "nil" THEN Res(an.d, v, an.err)
                 ELSE IF NumMethod(t) # 0
                 THEN Res(an.d, v, panicError("reflect.Set: value is not assignable"))
                 ELSE Res(an.d, SliceVal("[]any", an.xs), NoErr)))
        [] Kind(t) = "Struct" -> structArray(d, mismatch, -1, t, v)
        [] OTHER -> Res(mismatch, v, NoErr))

\* the Map and Interface loops of decodeMap and decodeMapIndefinite: kt and
\* et are the types of the key and of the element
mapLoop(d, kt, et, pairs, left) ==
    LET p == peekByte(d)
    IN  IF left < 0 /\ p.err.kind # "nil" THEN Loop(d, pairs, p.err)
        ELSE IF left < 0 /\ p.w[1] = \hFF THEN Loop([d EXCEPT !.off = @ + 1], pairs, NoErr)
        ELSE IF left = 0 THEN Loop(d, pairs, NoErr)
        ELSE With(decodeReflectValue([d EXCEPT !.decodingKeys = TRUE], kt, Zero(kt)), LAMBDA k :
          With([k.d EXCEPT !.decodingKeys = FALSE], LAMBDA dk :
            IF k.err.kind # "nil" THEN Loop(dk, pairs, k.err)
            ELSE With(decodeReflectValue(dk, et, Zero(et)), LAMBDA e :
              IF e.err.kind # "nil" THEN Loop(e.d, pairs, e.err)
              ELSE IF ~Hashable(k.v)
              THEN Loop(e.d, pairs, panicError("runtime error: hash of unhashable type"))
              ELSE mapLoop(e.d, kt, et, SetMapIndex(pairs, k.v, e.v), Next1(left)))))

\* the Struct loops of decodeMap and decodeMapIndefinite.  An error of the
\* key, of the field or of the skipped value is handed to saveError and
\* ends the loop; err is only set where the code returns (or faults).
structMapLoop(d, t, st, xs, left) ==
    LET p == peekByte(d)
    IN  IF left < 0 /\ p.err.kind # "nil" THEN Loop(d, xs, p.err)
        ELSE IF left < 0 /\ p.w[1] = \hFF THEN Loop([d EXCEPT !.off = @ + 1], xs, NoErr)
        ELSE IF left = 0 THEN Loop(d, xs, NoErr)
        ELSE With(decodeReflectValue([d EXCEPT !.decodingKeys = TRUE], "any", NilVal), LAMBDA k :
          With([k.d EXCEPT !.decodingKeys = FALSE], LAMBDA dk :
            IF k.err.kind = "panic" THEN Loop(dk, xs, k.err)
            ELSE IF k.err.kind # "nil" THEN Loop(saveError(dk, k.err), xs, NoErr)
            ELSE IF ~Hashable(k.v)
            THEN Loop(dk, xs, panicError("runtime error: hash of unhashable type"))
            ELSE IF FieldOfKey(st, k.v) # 0
            THEN With(st.fields[FieldOfKey(st, k.v)], LAMBDA f :
              With([dk EXCEPT !.errorContext =
                       [Struct |-> t, FieldStack |-> Append(@.FieldStack, f.name)]],
                   LAMBDA df :
                With(decodeReflectValue(df, f.type, xs[f.index]), LAMBDA r :
                  With([xs EXCEPT ![f.index] = r.v], LAMBDA xs1 :
                    IF r.err.kind = "panic" THEN Loop(r.d, xs1, r.err)
                    ELSE IF r.err.kind # "nil"
                    THEN Loop(saveError(r.d, r.err), xs1, NoErr)
                    ELSE structMapLoop(r.d, t, st, xs1, Next1(left))))))
            ELSE With(checkWellFormedChild(dk), LAMBDA c :
                   IF c.err.kind # "nil" THEN Loop(saveError(c.d, c.err), xs, NoErr)
                   ELSE structMapLoop(c.d, t, st, xs, Next1(left)))))

\* the Struct case of decodeMapOf: the errorContext is restored unless the
\* loop returned an error
structMap(d, left, t, v) ==
    With(cachedStructType(t), LAMBDA st :
      With(structMapLoop(d, t, st, v.xs, left), LAMBDA sm :
        IF sm.err.kind # "nil" THEN Res(sm.d, StructVal(t, sm.xs), sm.err)
        ELSE Res([sm.d EXCEPT !.errorContext =
                     [Struct |-> d.errorContext.Struct,
                      FieldStack |-> SubSeq(@.FieldStack, 1,
                                            Len(d.errorContext.FieldStack))]],
                 StructVal(t, sm.xs), NoErr)))

\* decodeMap (left = n) and decodeMapIndefinite (left = -1)
decodeMapOf(d, start, left, t, v) ==
    With(saveError(d, UnmarshalTypeError("map", t, start)), LAMBDA mismatch :
      IF d.decodingKeys THEN Res(d, v, newSyntaxError(d, "cbor: unexpected map key"))
      ELSE CASE Kind(t) = "Map" ->
                  With(mapLoop(d, Key(t), Elem(t), v.xs, left), LAMBDA mp :
                    Res(mp.d, MapVal(t, mp.xs), mp.err))
             [] Kind(t) = "Interface" ->
                  With(IF NumMethod(t) # 0 THEN mismatch ELSE d, LAMBDA d1 :
                    With(mapLoop(d1, IF d.useAnyKey THEN "any" ELSE "string", "any",
                                 <<>>, left), LAMBDA an :
                      IF an.err.kind # "nil" THEN Res(an.d, v, an.err)
                      ELSE IF NumMethod(t) # 0
                      THEN Res(an.d, v, panicError("reflect.Set: value is not assignable"))
                      ELSE Res(an.d, MapVal(IF d.useAnyKey THEN "map[any]any"
                                            ELSE "map[string]any", an.xs), NoErr)))
             [] Kind(t) = "Struct" -> structMap(d, left, t, v)
             [] OTHER -> Res(mismatch, v, NoErr))

decodeMap(d, start, n, t, v) == decodeMapOf(d, start, n, t, v)

decodeMapIndefinite(d, start, t, v) == decodeMapOf(d, start, -1, t, v)

decodeTag(d, start, w, t, v) ==
    With(decodeReflectValue(d, "any", NilVal), LAMBDA c :
      IF c.err.kind # "nil" THEN Res(c.d, v, c.err)
      ELSE IF t = "Tag" \/ (Kind(t) = "Interface" /\ NumMethod(t) = 0)
      THEN Res(c.d, TagVal(Normalize(w), c.v), NoErr)
      ELSE typeMismatch(c.d, "tag", t, start, v))

\* mag + 1 on a magnitude
RECURSIVE MagInc(_)
MagInc(mag) ==
    IF mag = <<>> THEN <<1>>
    ELSE IF mag[Len(mag)] < 255
    THEN [mag EXCEPT ![Len(mag)] = @ + 1]
    ELSE MagInc(SubSeq(mag, 1, Len(mag) - 1)) \o <<0>>

\* w >> k and w << k on the bytes of an unsigned integer
ShiftRight(w, k) ==
    LET at(i) == IF i \in 1..Len(w) THEN w[i] ELSE 0
    IN  [i \in 1..Len(w) |->
            ((at(i - (k \div 8) - 1) % 2^(k % 8)) * 2^(8 - (k % 8)))
            + (at(i - (k \div 8)) \div 2^(k % 8))]
ShiftLeft(w, k) ==
    LET at(i) == IF i \in 1..Len(w) THEN w[i] ELSE 0
    IN  [i \in 1..Len(w) |->
            ((at(i + (k \div 8)) * 2^(k % 8)) % 256)
            + (at(i + (k \div 8) + 1) \div 2^(8 - (k % 8)))]

\* time.Unix(sec, nsec) for sec and nsec of one sign, given by their
\* magnitudes: a negative nsec is carried into the seconds
timeUnix(neg, mag, nsec) ==
    IF nsec = 0 THEN TimeVal(neg /\ mag # <<>>, mag, 0)
    ELSE IF neg THEN TimeVal(TRUE, MagInc(mag), 10^9 - nsec)
    ELSE TimeVal(FALSE, mag, nsec)

\* i, f := math.Modf(epoch); time.Unix(int64(i), int64(f*1e9)) for the float64
\* of bits w.  x9 is |epoch| * 2^9.  The cases are those where int64(i) and
\* f*1e9 are exact: a zero, or a finite value below 2^53 whose fraction has
\* at most nine binary digits.
timeOfFloat(w) ==
    LET f == Float64Fields(w)
        exp == f.exp - 1023
        sig == <<0, 16 + (w[2] % 16)>> \o SubSeq(w, 3, 8)
        x9 == IF exp <= 43 THEN ShiftRight(sig, 43 - exp) ELSE ShiftLeft(sig, exp - 43)
    IN  CASE f.exp = 0 /\ f.hi = 0 /\ f.lo = 0 -> timeUnix(FALSE, <<>>, 0)
          [] f.exp \in 1..\h7FE /\ exp <= 52
             /\ (exp <= 43 => (43 - exp <= 52 /\ ShiftLeft(x9, 43 - exp) = sig)) ->
               timeUnix(f.sign = 1, Normalize(ShiftRight(x9, 9)),
                        (((x9[7] % 2) * 256) + x9[8]) * 1953125)

\* the time of tag 1: an int64 epoch is -1 - mag when negative
timeOfEpoch(epoch) ==
    CASE epoch.k = "int64" ->
           timeUnix(epoch.b, IF epoch.b THEN MagInc(epoch.xs) ELSE epoch.xs, 0)
      [] epoch.k = "float64" -> timeOfFloat(epoch.xs)
      [] OTHER -> Zero("time.Time")

\* the value w is stored when it has v's type or v is an interface w implements
setAny(d, start, value, w, t, v) ==
    IF w.k = t \/ (Kind(t) = "Interface" /\ NumMethod(t) = 0)
    THEN Res(d, w, NoErr)
    ELSE typeMismatch(d, value, t, start, v)

\* time.Parse(time.RFC3339Nano, s): no string of fewer than 20 bytes parses
timeParse(s) ==
    CASE Len(s) < 20 -> plainError("parsing time: cannot parse")

\* an int64 or an Integer as a sign and a magnitude; ok is false for what is
\* neither
signMagnitude(x) ==
    IF x.k \in {"int64", "Integer"}
    THEN [ok |-> TRUE, neg |-> x.b, mag |-> IF x.b THEN MagInc(x.xs) ELSE x.xs]
    ELSE [ok |-> FALSE, neg |-> FALSE, mag |-> <<>>]

\* a is the decoded []any.  A length other than 2 is only recorded, so that
\* a[0] and a[1] fault on a shorter array; an exponent that is no integer is
\* recorded and taken as 0.  exp is int(exp) of an exponent of at most two
\* bytes.
bigFloatOf(d, start, a, t, v) ==
    With(IF a.n # 2 THEN typeMismatch(d, "bigfloat", t, start, v).d ELSE d, LAMBDA d1 :
      IF a.n = 0
      THEN Res(d1, v, panicError("index out of range [0] with length 0"))
      ELSE With(signMagnitude(a.xs[1]), LAMBDA exp :
        IF a.xs[1].k = "Integer" /\ GtMaxInt64(a.xs[1].xs)
        THEN Res(d1, v, plainError("cbor: integer overflow"))
        ELSE With(IF exp.ok THEN d1
                  ELSE typeMismatch(d1, "bigfloat", t, start, v).d, LAMBDA d2 :
          IF a.n = 1
          THEN Res(d2, v, panicError("index out of range [1] with length 1"))
          ELSE With(signMagnitude(a.xs[2]), LAMBDA mant :
            IF ~mant.ok THEN typeMismatch(d2, "bigfloat", t, start, v)
            ELSE With(IF exp.neg THEN -ArgValue(<<0>> \o exp.mag) ELSE ArgValue(<<0>> \o exp.mag),
                      LAMBDA e :
              IF t = "big.Float"
              THEN Res(d2, BigFloatVal("big.Float", mant.neg, mant.mag, e), NoErr)
              ELSE setAny(d2, start, "bigfloat",
                          BigFloatVal("*big.Float", mant.neg, mant.mag, e), t, v))))))

decodeBigFloat(d, start, t, v) ==
    With(decodeReflectValue(d, "[]any", Zero("[]any")), LAMBDA a :
      IF a.err.kind # "nil" THEN Res(a.d, v, a.err)
      ELSE bigFloatOf(a.d, start, a.v, t, v))

\* the cases of decodeReflectValue for the tags 0 to 5 when the destination
\* is no Tag
decodeKnownTag(d, start, typ, t, v) ==
    CASE typ = \hC0 ->
           With(decodeReflectValue(d, "string", Zero("string")), LAMBDA s :
             IF s.err.kind # "nil" THEN Res(s.d, v, s.err)
             ELSE Res(s.d, v, timeParse(s.v.xs)))
      [] typ = \hC1 ->
           With(decodeReflectValue(d, "any", NilVal), LAMBDA epoch :
             IF epoch.err.kind # "nil" THEN Res(epoch.d, v, epoch.err)
             ELSE setAny(epoch.d, start, "time", timeOfEpoch(epoch.v), t, v))
      [] typ \in {\hC2, \hC3} ->
           With(decodeReflectValue(d, "[]uint8", Zero("[]uint8")), LAMBDA b :
             Res(b.d, v, b.err))
      [] typ = \hC4 -> Res(d, v, plainError("TODO: implement"))
      [] typ = \hC5 ->
           With(decodeBigFloat(d, start, t, v), LAMBDA f :
             Res(f.d, f.v, IF f.err.kind = "panic" THEN f.err ELSE NoErr))

\* the cases of decodeReflectValue for an initial byte typ that is followed
\* by an argument
decodeWithArg(d, start, typ, t, v) ==
    With(readArg(d, typ % 32), LAMBDA a :
      IF a.err.kind # "nil" THEN Res(a.d, v, a.err)
      ELSE CASE typ < \h20 -> decodePositiveInt(a.d, start, a.w, t, v)
             [] typ \in \h20..\h3B -> decodeNegativeInt(a.d, start, a.w, t, v)
             [] typ \in \h40..\h5B -> decodeBytes(a.d, start, ArgValue(a.w), t, v)
             [] typ \in \h60..\h7B -> decodeString(a.d, start, ArgValue(a.w), t, v)
             [] typ \in \h80..\h9B -> decodeArray(a.d, start, ArgValue(a.w), t, v)
             [] typ \in \hA0..\hBB -> decodeMap(a.d, start, ArgValue(a.w), t, v)
             [] typ \in \hC6..\hDB -> decodeTag(a.d, start, a.w, t, v))

\* indirect() gives the destination itself: no type of the model is a
\* pointer or implements Unmarshaler.  An initial byte that has no case in
\* the switch falls through to the final return nil.
decodeReflectValue(d, t, v) ==
    With(readByte(d), LAMBDA h :
      IF h.err.kind # "nil" THEN Res(h.d, v, h.err)
      ELSE With(h.w[1], LAMBDA typ :
        IF typ \in \h00..\h1B \/ typ \in \h20..\h3B \/ typ \in \h40..\h5B
           \/ typ \in \h60..\h7B \/ typ \in \h80..\h9B \/ typ \in \hA0..\hBB
           \/ typ \in \hC6..\hDB
        THEN decodeWithArg(h.d, d.off, typ, t, v)
        ELSE CASE typ = \h5F -> decodeBytesIndefinite(h.d, d.off, t, v)
               [] typ = \h7F -> decodeStringIndefinite(h.d, d.off, t, v)
               [] typ = \h9F -> decodeArrayIndefinite(h.d, d.off, t, v)
               [] typ = \hBF -> decodeMapIndefinite(h.d, d.off, t, v)
               [] typ \in SimpleCases -> setSimple(h.d, d.off, typ - \hE0, t, v)
               [] typ \in {\hF4, \hF5} -> setBool(h.d, d.off, typ = \hF5, t, v)
               [] typ = \hF6 -> setNull(h.d, d.off, t, v)
               [] typ = \hF7 -> setUndefined(h.d, d.off, t, v)
               [] typ = \hF8 ->
                    With(readByte(h.d), LAMBDA f8 :
                      IF f8.err.kind # "nil" THEN Res(f8.d, v, f8.err)
                      ELSE setSimple(f8.d, d.off, f8.w[1], t, v))
               [] typ = \hF9 ->
                    With(readUint16(h.d), LAMBDA w :
                      IF w.err.kind # "nil" THEN Res(w.d, v, w.err)
                      ELSE decodeFloat16(w.d, d.off, w.w, t, v))
               [] typ = \hFA ->
                    With(readUint32(h.d), LAMBDA w :
                      IF w.err.kind # "nil" THEN Res(w.d, v, w.err)
                      ELSE decodeFloat32(w.d, d.off, w.w, t, v))
               [] typ = \hFB ->
                    With(readUint64(h.d), LAMBDA w :
                      IF w.err.kind # "nil" THEN Res(w.d, v, w.err)
                      ELSE decodeFloat64(w.d, d.off, w.w, t, v))
               [] typ \in \hC0..\hC5 ->
                    IF t = "Tag" THEN decodeTag(h.d, d.off, <<typ - \hC0>>, t, v)
                    ELSE decodeKnownTag(h.d, d.off, typ, t, v)
               [] OTHER -> Res(h.d, v, NoErr)))

\* decode without its test of the argument: whatever v is, it is decoded into
decodeAnyArgument(d, isPtr, t, v) == decodeReflectValue(d, t, v)

\* decodeState.decode: isPtr tells whether v is a non-nil pointer
decode(d, isPtr, t, v) ==
    IF ~isPtr THEN Res(d, v, InvalidUnmarshalError(t))
    ELSE decodeReflectValue(d, t, v)

\* Unmarshal(data, v), v a pointer to a destination of type t holding val.
\* A fault unwinds the call; every other outcome is the returned error.
Unmarshal(bytes, isPtr, t, val) ==
    With(checkWellFormed(newDecodeState(bytes)), LAMBDA c :
      IF c.err.kind # "nil" THEN Res(c.d, val, c.err)
      ELSE With(decode(initState(c.d, bytes), isPtr, t, val), LAMBDA r :
             IF r.err.kind # "nil" THEN r
             ELSE Res(r.d, r.v, r.d.savedError)))

-----------------------------------------------------------------------------
(* The inputs of the model.                                                *)

\* the not well-formed inputs of RFC 8949, Appendix F, as the tests list them
notWellFormed ==
    {<<\h18>>, <<\h19>>, <<\h1A>>, <<\h1B>>, <<\h19, \h01>>,
     <<\h1A, \h01, \h02>>,
     <<\h1B, \h01, \h02, \h03, \h04, \h05, \h06, \h07>>, <<\h38>>, <<\h58>>,
     <<\h78>>, <<\h98>>, <<\h9A, \h01, \hFF, \h00>>, <<\hB8>>, <<\hD8>>,
     <<\hF8>>, <<\hF9, \h00>>, <<\hFA, \h00, \h00>>,
     <<\hFB, \h00, \h00, \h00>>, <<\h41>>, <<\h61>>,
     <<\h5A, \hFF, \hFF, \hFF, \hFF, \h00>>,
     <<\h5B, \hFF, \hFF, \hFF, \hFF, \hFF, \hFF, \hFF, \hFF, \h01, \h02, \h03>>,
     <<\h7A, \hFF, \hFF, \hFF, \hFF, \h00>>,
     <<\h7B, \h7F, \hFF, \hFF, \hFF, \hFF, \hFF, \hFF, \hFF, \h01, \h02, \h03>>,
     <<\h81>>, <<\h81, \h81, \h81, \h81, \h81, \h81, \h81, \h81, \h81>>,
     <<\h82, \h00>>, <<\hA1>>, <<\hA2, \h01, \h02>>, <<\hA1, \h00>>,
     <<\hA2, \h00, \h00, \h00>>, <<\hC0>>, <<\h5F, \h41, \h00>>,
     <<\h7F, \h61, \h00>>, <<\h9F>>, <<\h9F, \h01, \h02>>, <<\hBF>>,
     <<\hBF, \h01, \h02, \h01, \h02>>, <<\h81, \h9F>>, <<\h9F, \h80, \h00>>,
     <<\h9F, \h9F, \h9F, \h9F, \h9F, \hFF, \hFF, \hFF, \hFF>>,
     <<\h9F, \h81, \h9F, \h81, \h9F, \h9F, \hFF, \hFF, \hFF>>, <<\h1C>>,
     <<\h1D>>, <<\h1E>>, <<\h3C>>, <<\h3D>>, <<\h3E>>, <<\h5C>>, <<\h5D>>,
     <<\h5E>>, <<\h7C>>, <<\h7D>>, <<\h7E>>, <<\h9C>>, <<\h9D>>, <<\h9E>>,
     <<\hBC>>, <<\hBD>>, <<\hBE>>, <<\hDC>>, <<\hDD>>, <<\hDE>>, <<\hFC>>,
     <<\hFD>>, <<\hFE>>, <<\hF8, \h00>>, <<\hF8, \h01>>, <<\hF8, \h18>>,
     <<\hF8, \h1F>>, <<\h5F, \h00, \hFF>>, <<\h5F, \h21, \hFF>>,
     <<\h5F, \h61, \h00, \hFF>>, <<\h5F, \h80, \hFF>>, <<\h5F, \hA0, \hFF>>,
     <<\h5F, \hC0, \h00, \hFF>>, <<\h5F, \hE0, \hFF>>,
     <<\h7F, \h41, \h00, \hFF>>, <<\h81, \hFF>>, <<\h82, \h00, \hFF>>,
     <<\hA1, \hFF>>, <<\hA1, \hFF, \h00>>, <<\hA1, \h00, \hFF>>,
     <<\hA2, \h00, \h00, \hFF>>, <<\h9F, \h81, \hFF>>,
     <<\h9F, \h82, \h9F, \h81, \h9F, \h9F, \hFF, \hFF, \hFF, \hFF>>,
     <<\hBF, \h00, \hFF>>, <<\hBF, \h00, \h00, \h00, \hFF>>, <<\h1F>>,
     <<\h3F>>, <<\hDF>>}

\* the keys of generated maps: 1, "A", "B", "" and the empty map
Keys == {<<\h01>>, <<\h61, \h41>>, <<\h61, \h42>>, <<\h60>>, <<\hA0>>}

\* the values of generated maps and the elements of generated arrays:
\* 0, 1, false, a text string that is not UTF-8, [0], the empty map, ""
Vals ==
    {<<\h00>>, <<\h01>>, <<\hF4>>, <<\h61, \hFF>>, <<\h81, \h00>>, <<\hA0>>, <<\h60>>}

\* the sequences of at most n members of S
RECURSIVE SeqsUpTo(_, _)
SeqsUpTo(S, n) ==
    IF n = 0 THEN {<<>>}
    ELSE SeqsUpTo(S, n - 1)
         \cup {Append(q, x) : q \in {q \in SeqsUpTo(S, n - 1) : Len(q) = n - 1}, x \in S}

\* an array or a map (major = 4 or 5) of the given items, with a definite or
\* an indefinite length; count is the number in the head
Container(major, count, members, definite) ==
    IF definite THEN <<major * 32 + count>> \o Concat(members)
    ELSE <<major * 32 + 31>> \o Concat(members) \o <<\hFF>>

\* floats of the three widths: 1.0 and a subnormal as halves, a NaN and a
\* subnormal as singles, a double
Floats ==
    {<<\hF9, \h3C, \h00>>, <<\hF9, \h80, \h01>>, <<\hFA, \h7F, \h80, \h00, \h01>>,
     <<\hFA, \h00, \h00, \h00, \h03>>,
     <<\hFB, \h3F, \hF0, \h00, \h00, \h00, \h00, \h00, \h01>>}

\* integers at the limits of int8, uint8, int64 and uint64: -1, 127, 128,
\* 255, 256, -128, -129, 2^63 - 1, 2^63, 2^64 - 1, -2^63, -2^63 - 1, -2^64
Ints ==
    {<<\h20>>, <<\h18, \h7F>>, <<\h18, \h80>>, <<\h18, \hFF>>, <<\h19, \h01, \h00>>,
     <<\h38, \h7F>>, <<\h38, \h80>>,
     <<\h1B, \h7F, \hFF, \hFF, \hFF, \hFF, \hFF, \hFF, \hFF>>,
     <<\h1B, \h80, \h00, \h00, \h00, \h00, \h00, \h00, \h00>>,
     <<\h1B, \hFF, \hFF, \hFF, \hFF, \hFF, \hFF, \hFF, \hFF>>,
     <<\h3B, \h7F, \hFF, \hFF, \hFF, \hFF, \hFF, \hFF, \hFF>>,
     <<\h3B, \h80, \h00, \h00, \h00, \h00, \h00, \h00, \h00>>,
     <<\h3B, \hFF, \hFF, \hFF, \hFF, \hFF, \hFF, \hFF, \hFF>>}

\* keys that name no field of FooA or FooB: 2, "C", false, 1.0, 2^64 - 1,
\* -2^64, a byte string, an array
UnknownKeys ==
    {<<\h02>>, <<\h61, \h43>>, <<\hF4>>, <<\hF9, \h3C, \h00>>,
     <<\h1B, \hFF, \hFF, \hFF, \hFF, \hFF, \hFF, \hFF, \hFF>>,
     <<\h3B, \hFF, \hFF, \hFF, \hFF, \hFF, \hFF, \hFF, \hFF>>,
     <<\h41, \h00>>, <<\h80>>}

\* a map whose first entry has the key k and the value [0], followed by the
\* entries rest
UnknownKeyMap(k, rest, definite) ==
    Container(5, 1 + Len(rest), <<k \o <<\h81, \h00>>>> \o rest, definite)

\* the entries after the unknown one: none, "A": 1, or 1: 1
KnownEntries == {<<>>, <<<<\h61, \h41, \h01>>>>, <<<<\h01, \h01>>>>}

UnknownKeyMaps ==
    {UnknownKeyMap(k, rest, definite) :
        k \in UnknownKeys, rest \in KnownEntries, definite \in BOOLEAN}

\* maps with maps in and under their keys and values: {{h'01020304': 1}: 2},
\* {[{}]: 0}, {32({}): 0}, {"": {"": {}}}, {"": [{"": {}}]}, {"": {}, {}: 0},
\* {"": {{}: 0}}
MapKeyInputs ==
    {<<\hA1, \hA1, \h44, \h01, \h02, \h03, \h04, \h01, \h02>>,
     <<\hA1, \h81, \hA0, \h00>>, <<\hA1, \hD8, \h20, \hA0, \h00>>,
     <<\hA1, \h60, \hA1, \h60, \hA0>>, <<\hA1, \h60, \h81, \hA1, \h60, \hA0>>,
     <<\hA2, \h60, \hA0, \hA0, \h00>>, <<\hA1, \h60, \hA1, \hA0, \h00>>}

\* tags 0 to 5 and tag 1 in two bytes: epochs at both limits of the range
\* of tag 1 as integers and as floats, with and without a fraction; contents
\* of another type; bigfloats of zero to three elements
Tagged ==
    {<<\hC1, \h00>>,
     <<\hC1, \h1B, \h00, \h00, \h00, \h3A, \hFF, \hF4, \h41, \h80>>,
     <<\hC1, \h1B, \h00, \h00, \h00, \h3A, \hFF, \hF4, \h41, \h7F>>,
     <<\hC1, \h3B, \h00, \h00, \h00, \h0E, \h77, \h91, \hF6, \hFF>>,
     <<\hC1, \h3B, \h00, \h00, \h00, \h0E, \h77, \h91, \hF6, \hFE>>,
     <<\hC1, \hFB, \h42, \h4D, \h7F, \hFA, \h20, \hC0, \h00, \h00>>,
     <<\hC1, \hFB, \h42, \h4D, \h7F, \hFA, \h20, \hBF, \hC0, \h00>>,
     <<\hC1, \hFB, \hC2, \h2C, \hEF, \h23, \hEE, \h00, \h00, \h00>>,
     <<\hC1, \hF9, \h3E, \h00>>, <<\hC1, \hF9, \hBE, \h00>>, <<\hC1, \h60>>,
     <<\hD8, \h01, \h00>>,
     <<\hC0, \h60>>, <<\hC0, \h00>>, <<\hC2, \h41, \h01>>, <<\hC3, \h40>>,
     <<\hC4, \h82, \h00, \h01>>,
     <<\hC5, \h82, \h20, \h03>>, <<\hC5, \h82, \h01, \h20>>, <<\hC5, \h82, \h00, \h00>>,
     <<\hC5, \h80>>, <<\hC5, \h81, \h00>>, <<\hC5, \h00>>,
     <<\hC5, \h83, \h00, \h01, \h02>>, <<\hC5, \h82, \h60, \h01>>,
     <<\hC5, \h82, \h00, \h60>>}

\* the arguments of generated calls: the items, the arrays of at most MaxElems
\* of them, the maps of at most MaxPairs pairs of a key and an item, the
\* one-byte simple values, and the inputs that are not well-formed
Inputs ==
    Vals
    \cup {<<b>> : b \in \hE0..\hF3}
    \cup Ints
    \cup UnknownKeyMaps
    \cup MapKeyInputs
    \cup Floats
    \cup Tagged
    \cup {Container(4, Len(q), q, definite) :
             q \in SeqsUpTo(Vals, MaxElems), definite \in BOOLEAN}
    \cup {Container(5, Len(q), q, definite) :
             q \in SeqsUpTo({k \o v : k \in Keys, v \in Vals}, MaxPairs),
             definite \in BOOLEAN}
    \cup notWellFormed

\* the types of the destinations
Targets ==
    {"any", "someInterface", "int64", "int8", "uint8", "uint64", "float64", "string",
     "[]int64", "[]any", "map[string]int64", "FooA", "FooB", "time.Time", "big.Float"}

-----------------------------------------------------------------------------
(* Unmarshal and WellFormed as operations of the library.                  *)

\* the variables of the operations a specification does not use keep these values
UmIdle ==
    /\ data = <<>> /\ target = "any" /\ dst0 = NilVal /\ dst = NilVal /\ ret = NoErr
    /\ dstate = newDecodeState(<<>>) /\ ptr = TRUE /\ wf = "none"

DecIdle ==
    /\ items = <<>> /\ tail = <<>> /\ chunks = <<>> /\ buf = <<>> /\ scanp = 0
    /\ out = <<>>

EncIdle ==
    /\ encErr = NoErr /\ sink = <<>> /\ encLog = <<>>

\* FuzzUnmarshal before it has run: w, the error of its decoding, c with
\* its error, and whether t.Error was called
noFuzz ==
    [w |-> NilVal, werr |-> NoErr, c |-> [bytes |-> <<>>, err |-> NoErr],
     failed |-> FALSE]

MarIdle ==
    /\ heap = <<>> /\ mval = NilVal /\ mret = [bytes |-> <<>>, err |-> NoErr]
    /\ fuzz = noFuzz

CacheIdle ==
    /\ cache = <<>> /\ done = {} /\ captured = <<>> /\ gor = <<>>

JsonIdle ==
    json = [b |-> <<>>, i |-> Val("Integer", FALSE, 0, <<>>), err |-> NoErr]

\* ednDecState{data: data} with the buffer of DecodeEDN's own state
newEdnDecState(text) ==
    [data |-> text, off |-> 0, err |-> NoErr,
     frames |-> <<[ind |-> -1, count |-> 0, buf |-> <<>>]>>, iters |-> 0]

EdnIdle ==
    edn = newEdnDecState(<<>>)

Init ==
    /\ pc = "idle"
    /\ UmIdle
    /\ DecIdle
    /\ EncIdle
    /\ MarIdle
    /\ CacheIdle
    /\ JsonIdle
    /\ EdnIdle

\* one call of Unmarshal on a fresh destination of type t
UnmarshalCall ==
    /\ pc = "idle"
    /\ \E bytes \in Inputs, t \in Targets, isPtr \in BOOLEAN :
          \E r \in {Unmarshal(bytes, isPtr, t, Zero(t))} :
              /\ data' = bytes
              /\ target' = t
              /\ ptr' = isPtr
              /\ dst0' = Zero(t)
              /\ dst' = r.v
              /\ ret' = r.err
              /\ dstate' = r.d
    /\ pc' = "done"
    /\ UNCHANGED <<wf, decVars, encVars, marVars, cacheVars, jsonVars, ednVars>>

\* WellFormed on the input of the call
WellFormedCall ==
    /\ pc = "done"
    /\ wf = "none"
    /\ wf' = IF WellFormed(data) THEN "true" ELSE "false"
    /\ UNCHANGED <<pc, data, target, dst0, dst, ret, dstate, ptr, decVars, encVars, marVars,
                   cacheVars, jsonVars, ednVars>>

Next == UnmarshalCall \/ WellFormedCall

Spec == Init /\ [][Next]_vars

-----------------------------------------------------------------------------
(* Properties of Unmarshal and WellFormed.                                 *)

\* the type mismatches the call handed to saveError, in order
TypeMismatches ==
    SelectSeq(dstate.errLog, LAMBDA e : e.kind = "UnmarshalTypeError")

\* a syntax error was handed to saveError after a type mismatch had been
SyntaxErrorAfterMismatch ==
    \E i, j \in 1..Len(dstate.errLog) :
        /\ i < j
        /\ dstate.errLog[i].kind = "UnmarshalTypeError"
        /\ dstate.errLog[j].kind = "SyntaxError"

\* the generated maps of two pairs that have one key twice
DuplicateKeyMaps ==
    {Container(5, 2, <<k \o v1, k \o v2>>, definite) :
        k \in Keys \ {<<\hA0>>}, v1 \in {<<\h00>>}, v2 \in {<<\h01>>}, definite \in BOOLEAN}

\* C1: every not well-formed input of RFC 8949, Appendix F is rejected:
\* WellFormed reports false and Unmarshal returns a SyntaxError, never an
\* error of another kind.
C1_AppendixFRejected ==
    (pc = "done" /\ data \in notWellFormed)
        => (ret.kind = "SyntaxError" /\ wf # "true")

\* C1, the divergence: Unmarshal returns a plain error for an indefinite-length
\* byte string whose chunk is not a definite-length byte string.
C1_PlainError ==
    pc = "done" /\ data = <<\h5F, \h00, \hFF>> /\ ret.kind = "error" /\ wf = "false"

\* C2: when a well-formed input has several type mismatches against the
\* destination (and no syntax error), decoding does not stop at the first:
\* the whole top-level item is decoded and the returned error is the first
\* mismatch in input order.
C2_MismatchesDeferred ==
    (pc = "done" /\ ptr /\ WellFormed(data) /\ Len(TypeMismatches) >= 2
        /\ ret.kind # "SyntaxError" /\ ~SyntaxErrorAfterMismatch)
        => (dstate.off = Len(data) /\ ret = TypeMismatches[1])

\* C2, the divergence: [false, [0]] into []int64 records both mismatches and
\* returns with the offset inside the input, the inner array not consumed.
C2_ItemNotConsumed ==
    /\ pc = "done" /\ ptr /\ target = "[]int64"
    /\ data = <<\h82, \hF4, \h81, \h00>>
    /\ Len(TypeMismatches) = 2 /\ ret = TypeMismatches[1]
    /\ dstate.off = 3

\* C3: when a syntax error occurs after a type mismatch has been deferred,
\* Unmarshal returns the syntax error, not the mismatch, wherever the syntax
\* error occurs.
C3_SyntaxErrorWins ==
    (pc = "done" /\ ptr /\ SyntaxErrorAfterMismatch) => ret.kind = "SyntaxError"

\* C3, the divergence: {"A": "", "B": <not UTF-8>} into FooA returns the
\* mismatch of field A; the syntax error of field B is dropped.
C3_SyntaxErrorDropped ==
    /\ pc = "done" /\ ptr /\ target = "FooA"
    /\ data = <<\hA2, \h61, \h41, \h60, \h61, \h42, \h61, \hFF>>
    /\ SyntaxErrorAfterMismatch
    /\ ret.kind = "UnmarshalTypeError"

\* C4: when Unmarshal returns a syntax error (a text string that is not
\* UTF-8 included), the destination is unchanged.
C4_DestinationUnchanged ==
    (pc = "done" /\ ret.kind = "SyntaxError") => dst = dst0

\* C4, the divergence: [0, <not UTF-8>] into a nil []int64 returns a syntax
\* error and leaves a slice of length 2.
C4_DestinationWritten ==
    /\ pc = "done" /\ target = "[]int64"
    /\ data = <<\h82, \h00, \h61, \hFF>>
    /\ ret.kind = "SyntaxError"
    /\ dst0 = Zero("[]int64") /\ dst.b /\ dst.n = 2

\* C5: a map with a duplicate key, of definite or indefinite length, decoded
\* into a map, into an empty interface or into a struct both of whose keys
\* name one field, gives a semantic error; the later entry never silently
\* overwrites the earlier one.
C5_DuplicateKeyRejected ==
    (pc = "done" /\ ptr /\ data \in DuplicateKeyMaps
        /\ target \in {"map[string]int64", "any", "FooA"})
        => (ret.kind = "SemanticError" /\ dst = dst0)

\* C5, the divergence: {"": 0, "": 1} into map[string]int64 returns nil and
\* leaves the map {"": 1}.
C5_SilentOverwrite ==
    /\ pc = "done" /\ ptr /\ target = "map[string]int64"
    /\ data = <<\hA2, \h60, \h00, \h60, \h01>>
    /\ ret.kind = "nil"
    /\ dst.xs = <<<<StringVal(<<>>), IntVal("int64", FALSE, <<1>>)>>>>

\* a time at or beyond one of the limits of tag 1: at or after
\* 253402300800 (maxEpoch), or at or before -62135596800 (minEpoch)
OutOfEpochRange(t) ==
    LET sec == [i \in 1..(8 - Len(t.xs)) |-> 0] \o t.xs
        maxEpoch == <<0, 0, 0, \h3A, \hFF, \hF4, \h41, \h80>>
        minEpoch == <<0, 0, 0, \h0E, \h77, \h91, \hF7, \h00>>
    IN  IF t.b THEN BytesLess(minEpoch, sec) \/ (sec = minEpoch /\ t.n = 0)
        ELSE ~BytesLess(sec, maxEpoch)

\* C19: decoding tag 1 into a time succeeds only when the epoch t satisfies
\* minEpoch < t < maxEpoch; an integer or a float t at or beyond a limit is
\* rejected with a semantic error.
C19_EpochRangeChecked ==
    (pc = "done" /\ ptr /\ target = "time.Time" /\ Len(data) > 1 /\ data[1] = \hC1
     /\ Unmarshal(Tail(data), TRUE, "any", NilVal).v.k \in {"int64", "float64"})
        => IF OutOfEpochRange(timeOfEpoch(Unmarshal(Tail(data), TRUE, "any", NilVal).v))
           THEN ret.kind = "SemanticError" /\ dst = dst0
           ELSE ret.kind = "nil"
                /\ dst = timeOfEpoch(Unmarshal(Tail(data), TRUE, "any", NilVal).v)

\* the first second of the year 10000 is decoded without an error
C19_Year10000Accepted ==
    /\ pc = "done" /\ ptr /\ target = "time.Time"
    /\ data = <<\hC1, \h1B, \h00, \h00, \h00, \h3A, \hFF, \hF4, \h41, \h80>>
    /\ ret.kind = "nil"
    /\ dst = TimeVal(FALSE, <<\h3A, \hFF, \hF4, \h41, \h80>>, 0)

\* C15: Unmarshal with an argument that is not a non-nil pointer returns an
\* InvalidUnmarshalError whatever the input is, malformed input included.
C15_InvalidTargetFirst ==
    (pc = "done" /\ ~ptr) => ret.kind = "InvalidUnmarshalError"

\* C15 as amended: the input is checked first.  With an argument that is not
\* a non-nil pointer, Unmarshal returns the error of the check when WellFormed
\* is false; else it returns the InvalidUnmarshalError of the argument's type,
\* the value decoder has read no byte and the argument is unchanged.
C15_InvalidTargetAfterCheck ==
    (pc = "done" /\ ~ptr)
        => IF WellFormed(data)
           THEN /\ ret = InvalidUnmarshalError(target)
                /\ dstate.off = 0
                /\ dst = dst0
           ELSE /\ ret = checkWellFormed(newDecodeState(data)).err
                /\ ret.kind \in {"SyntaxError", "error"}
                /\ dst = dst0

\* C15, the case: [0, 1] with an argument that is not a pointer
C15_InvalidTargetReported ==
    /\ pc = "done" /\ ~ptr /\ data = <<\h82, \h00, \h01>>
    /\ ret.kind = "InvalidUnmarshalError"

\* C20: every one-byte simple value, initial byte 0xE0 to 0xF3, is well-formed
\* and decodes into an empty interface as Simple(initial byte - 0xE0).
C20_SimpleValuesDecoded ==
    (pc = "done" /\ ptr /\ target = "any" /\ Len(data) = 1 /\ data[1] \in \hE0..\hF3)
        => /\ ret.kind = "nil"
           /\ dst = SimpleVal(data[1] - \hE0)
           /\ wf # "false"

\* C20, the divergence: simple(9) is reported as not well-formed and
\* Unmarshal returns a syntax error
C20_SimpleNineRejected ==
    /\ pc = "done" /\ ptr /\ target = "any" /\ data = <<\hE9>>
    /\ ret.kind = "SyntaxError" /\ wf = "false" /\ dst = dst0

\* the magnitude in the head of an integer item: of n for the unsigned
\* integer n, and for the negative integer -1 - n
HeadMagnitude(item) ==
    Normalize(IF item[1] % 32 < 24 THEN <<item[1] % 32>> ELSE Tail(item))

\* the integer of the item is a value of the integer type t
FitsInteger(item, t) ==
    LET mag == HeadMagnitude(item)
        signedFit == Len(mag) < IntSize(t) \/ (Len(mag) = IntSize(t) /\ mag[1] < 128)
    IN  IF Kind(t) = "Int" THEN signedFit
        ELSE item[1] \div 32 = 0 /\ Len(mag) <= IntSize(t)

\* C22: an integer, positive or negative, that does not fit the signed or
\* unsigned integer target defers a type error and leaves the target
\* unassigned: it keeps its previous value, never a truncated or wrapped one.
C22_OverflowLeavesTarget ==
    (pc = "done" /\ ptr /\ Kind(target) \in {"Int", "Uint"} /\ data \in Ints
     /\ ~FitsInteger(data, target))
        => (ret.kind = "UnmarshalTypeError" /\ dst = dst0)

\* C22, the divergence: -2^63 - 1 into an int64 reports the type error and
\* stores int64(^w) = 2^63 - 1
C22_WrappedValueStored ==
    /\ pc = "done" /\ ptr /\ target = "int64"
    /\ data = <<\h3B, \h80, \h00, \h00, \h00, \h00, \h00, \h00, \h00>>
    /\ ret.kind = "UnmarshalTypeError"
    /\ dst = IntVal("int64", FALSE, <<\h7F, \hFF, \hFF, \hFF, \hFF, \hFF, \hFF, \hFF>>)

\* the field of FooA or FooB that the key ending in the byte b names
FieldOfKeyByte(b) ==
    CASE b = \h41 -> "A" [] b = \h42 -> "B" [] b = \h01 -> "Alg" [] OTHER -> ""

\* C23: the field path of a deferred type error is exactly the chain of
\* fields that enclose the failing value, outermost first; a field decoded
\* earlier in the same record is not in the path of a later sibling.  The
\* fields of FooA and FooB hold no records, so the path of a value of a map
\* entry is the one field that the key before the value names.
C23_FieldPathOfFailingValue ==
    (pc = "done" /\ ptr /\ target \in {"FooA", "FooB"}
     /\ ret.kind = "UnmarshalTypeError" /\ ret.Struct # "" /\ data[1] \div 32 = 5)
        => ret.Field = <<FieldOfKeyByte(data[ret.Offset])>>

\* C23, the divergence: {"A": 0, "B": 0} into a FooA reports the integer at
\* offset 6 with the path A.B
C23_SiblingInPath ==
    /\ pc = "done" /\ ptr /\ target = "FooA"
    /\ data = <<\hA2, \h61, \h41, \h00, \h61, \h42, \h00>>
    /\ ret.kind = "UnmarshalTypeError" /\ ret.Offset = 6
    /\ ret.Struct = "FooA" /\ ret.Field = <<"A", "B">>

\* C24: into a record, an entry whose key matches no field is skipped as a
\* whole, whatever the type or the magnitude of the key: no error is
\* recorded, and the record is what the map without that entry gives (the
\* fields without a matching entry keep their values).
C24_UnknownKeySkipped ==
    \A k \in UnknownKeys, rest \in KnownEntries, definite \in BOOLEAN :
        (pc = "done" /\ ptr /\ target \in {"FooA", "FooB"}
         /\ data = UnknownKeyMap(k, rest, definite))
            => /\ ret.kind = "nil"
               /\ dstate.errLog = <<>>
               /\ dstate.off = Len(data)
               /\ dst = Unmarshal(Container(5, Len(rest), rest, definite), TRUE, target,
                                   dst0).v

\* C24, the divergence: {2^64 - 1: [0], "A": 1} into a FooA sets A and
\* returns a type error for the key
C24_KeyMagnitudeReported ==
    /\ pc = "done" /\ ptr /\ target = "FooA"
    /\ data = UnknownKeyMap(<<\h1B, \hFF, \hFF, \hFF, \hFF, \hFF, \hFF, \hFF, \hFF>>,
                            <<<<\h61, \h41, \h01>>>>, TRUE)
    /\ ret.kind = "UnmarshalTypeError" /\ ret.Value = "integer" /\ ret.Offset = 1
    /\ dst.xs[1] = IntVal("int", FALSE, <<1>>)

-----------------------------------------------------------------------------
(* The stream Decoder.  The source is an io.Reader: each Read gives the    *)
(* next chunk, the last one with io.EOF or with nil, and after the last    *)
(* chunk Read gives no bytes and io.EOF.  A chunk is shorter than minRead, *)
(* so a Read always has room for it.                                       *)

minRead == 512

EOF == [NoErr EXCEPT !.kind = "EOF", !.msg = "EOF"]

\* r.Read: the bytes read, the error, and the reads that remain
ReaderRead(ch) ==
    IF ch = <<>> THEN [bytes |-> <<>>, err |-> EOF, rest |-> <<>>]
    ELSE [bytes |-> Head(ch).bytes, err |-> IF Head(ch).eof THEN EOF ELSE NoErr,
          rest |-> Tail(ch)]

\* the Decoder's fields and its source
Dec(b, sp, ch) == [buf |-> b, scanp |-> sp, chunks |-> ch]

\* Decoder.refill: slide the unread bytes down, then read once
refill(dec) ==
    With(IF dec.scanp > 0 THEN Slice(dec.buf, dec.scanp, Len(dec.buf)) ELSE dec.buf,
         LAMBDA slid :
      With(ReaderRead(dec.chunks), LAMBDA r :
        [dec |-> Dec(slid \o r.bytes, 0, r.rest), err |-> r.err]))

\* Decoder.readValue: n is the length of the item at buf[scanp:]
RECURSIVE readValue(_)
readValue(dec) ==
    With(newDecodeState(Slice(dec.buf, dec.scanp, Len(dec.buf))), LAMBDA d :
      With(checkWellFormedChild(d), LAMBDA c :
        IF c.err.kind = "nil" THEN [dec |-> dec, n |-> c.d.off, err |-> NoErr]
        ELSE With(refill(dec), LAMBDA f :
               IF f.err.kind # "nil" THEN [dec |-> f.dec, n |-> 0, err |-> f.err]
               ELSE readValue(f.dec))))

\* Decoder.Decode(v), v a pointer to a fresh destination of type t; dec.err
\* is never set, so its test never returns
Decode(dec, t) ==
    With(readValue(dec), LAMBDA rv :
      IF rv.err.kind # "nil" THEN [dec |-> rv.dec, v |-> Zero(t), err |-> rv.err]
      ELSE With(newDecodeState(Slice(rv.dec.buf, 0, rv.n)), LAMBDA d :
             With(decode(d, TRUE, t, Zero(t)), LAMBDA r :
               [dec |-> [rv.dec EXCEPT !.scanp = @ + rv.n], v |-> r.v, err |-> r.err])))

\* the data items of generated streams: 1, 2, "a", [1, 2]
StreamItems == {<<\h01>>, <<\h02>>, <<\h61, \h61>>, <<\h82, \h01, \h02>>}

\* the proper, non-empty prefixes of an item
Prefixes(item) == {SubSeq(item, 1, k) : k \in 1..(Len(item) - 1)}

\* the ways to cut bytes into at most k non-empty chunks
RECURSIVE Splits(_, _)
Splits(bytes, k) ==
    IF bytes = <<>> THEN {<<>>}
    ELSE IF k = 0 THEN {}
    ELSE UNION {{<<SubSeq(bytes, 1, i)>> \o rest :
                    rest \in Splits(SubSeq(bytes, i + 1, Len(bytes)), k - 1)} :
                i \in 1..Len(bytes)}

\* the reads that deliver a split; eofWithData: the last one also gives io.EOF
Reads(split, eofWithData) ==
    [i \in 1..Len(split) |-> [bytes |-> split[i], eof |-> eofWithData /\ i = Len(split)]]

DecoderTargets == {"any", "int64"}

\* bytes that are the beginning of no data item: a head with the reserved
\* additional information 28, alone and before a 1, and a break before a 1
BadFronts == {<<\h1C>>, <<\h1C, \h01>>, <<\hFF, \h01>>}

InitStream ==
    /\ pc = "stream"
    /\ UmIdle
    /\ EncIdle
    /\ MarIdle
    /\ CacheIdle
    /\ JsonIdle
    /\ EdnIdle
    /\ items \in SeqsUpTo(StreamItems, MaxItems)
    /\ tail \in {<<>>} \cup UNION {Prefixes(item) : item \in StreamItems} \cup BadFronts
    /\ \E split \in Splits(Concat(items) \o tail, MaxChunks), eofWithData \in BOOLEAN :
          chunks = Reads(split, eofWithData)
    /\ buf = <<>>
    /\ scanp = 0
    /\ out = <<>>

\* one call of Decode; a Decoder is called at most once after its items
DecodeCall ==
    /\ pc = "stream"
    /\ Len(out) <= Len(items)
    /\ \E t \in DecoderTargets :
          \E r \in {Decode(Dec(buf, scanp, chunks), t)} :
              /\ buf' = r.dec.buf
              /\ scanp' = r.dec.scanp
              /\ chunks' = r.dec.chunks
              /\ out' = Append(out, [t |-> t, v |-> r.v, err |-> r.err])
    /\ UNCHANGED <<pc, items, tail, umVars, encVars, marVars, cacheVars, jsonVars, ednVars>>

NextStream == DecodeCall

SpecStream == InitStream /\ [][NextStream]_vars

\* C6: for a source whose bytes are the items i1..ik, the j-th Decode call
\* decodes exactly item ij, whatever the lengths of the earlier items and
\* however the source splits its reads.
C6_DecodeInOrder ==
    \A j \in 1..Len(out) :
        (j <= Len(items) /\ out[j].t = "any")
            => /\ out[j].err.kind = "nil"
               /\ out[j].v = Unmarshal(items[j], TRUE, "any", NilVal).v

\* C27: for every well-formed item and every target, Decode returns the
\* outcome of Unmarshal on the bytes of that item alone: the same
\* destination value and the same error, deferred type errors included.
C27_DecodeAsUnmarshal ==
    \A j \in 1..Len(out) :
        j <= Len(items)
            => /\ out[j].err = Unmarshal(items[j], TRUE, out[j].t, Zero(out[j].t)).err
               /\ out[j].v = Unmarshal(items[j], TRUE, out[j].t, Zero(out[j].t)).v

\* C27, the divergence: the first Decode of the stream "a" into an int64
\* returns nil, Unmarshal of the same bytes returns the type error
C27_TypeErrorLost ==
    /\ items = <<(<<\h61, \h61>>)>> /\ tail = <<>>
    /\ Len(out) = 1 /\ out[1].t = "int64"
    /\ out[1].err.kind = "nil"
    /\ out[1].v = IntVal("int64", FALSE, <<>>)
    /\ Unmarshal(items[1], TRUE, "int64", Zero("int64")).err.kind = "UnmarshalTypeError"

\* C6, the divergence: the source delivers 1 and 2 in one read, and the
\* second Decode decodes the 1 again.
C6_FirstItemDecodedAgain ==
    /\ items = <<(<<\h01>>), (<<\h02>>)>> /\ tail = <<>>
    /\ Len(out) = 2 /\ out[1].t = "any" /\ out[2].t = "any"
    /\ out[2].err.kind = "nil"
    /\ out[2].v = IntVal("int64", FALSE, <<1>>)

\* C7: when the source reports EOF while the buffered bytes are only a
\* proper, non-empty prefix of a data item, Decode returns an
\* unexpected-end error.
C7_UnexpectedEnd ==
    (tail # <<>> /\ tail \notin BadFronts /\ Len(out) = Len(items) + 1 /\ chunks = <<>>)
        => (out[Len(out)].err.kind \in {"SyntaxError", "ErrUnexpectedEOF"})

\* C7, the divergence: the source ends inside the item [1, 2] and Decode
\* returns io.EOF, as it does at the end of a complete stream.
C7_PlainEOF ==
    /\ items = <<>> /\ tail = <<\h82, \h01>> /\ chunks = <<>>
    /\ Len(out) = 1 /\ out[1].err = EOF
    /\ Slice(buf, scanp, Len(buf)) = tail

\* C28: when the bytes at the front of the stream can never become a
\* well-formed item, Decode returns a syntax error after a bounded number of
\* reads: it does not go on reading until the source ends.
C28_BadFrontIsSyntaxError ==
    (tail \in BadFronts /\ Len(out) = Len(items) + 1)
        => out[Len(out)].err.kind = "SyntaxError"

\* C28, the divergence: the source delivers 1c 01; Decode has read all of
\* it, holds both bytes in its buffer and returns io.EOF
C28_ReadToTheEnd ==
    /\ items = <<>> /\ tail = <<\h1C, \h01>> /\ chunks = <<>>
    /\ Len(out) = 1 /\ out[1].err = EOF
    /\ buf = tail /\ scanp = 0

-----------------------------------------------------------------------------
(* Marshal.  An encoder gives Enc(bytes, err): the bytes it wrote and the  *)
(* error it returned.  hp is the heap the value's pointers and references  *)
(* point into.  Every nested encoder call takes room on the goroutine's    *)
(* stack; at depth MaxStack the stack is exhausted and the Go runtime ends *)
(* the program with a fatal error, which nothing can recover.              *)

Enc(bytes, err) == [bytes |-> bytes, err |-> err]

fatalError(msg) == [NoErr EXCEPT !.kind = "fatal", !.msg = msg]

\* reflect's isEmptyValue
isEmptyValue(v) ==
    CASE Kind(v.k) = "Slice" -> v.n = 0
      [] Kind(v.k) = "Map" -> Len(v.xs) = 0
      [] Kind(v.k) = "String" -> Len(v.xs) = 0
      [] Kind(v.k) = "Bool" -> ~v.b
      [] Kind(v.k) \in {"Int", "Uint"} -> v.xs = <<>> /\ ~v.b
      [] Kind(v.k) = "Float" -> v.xs \in {Float64frombits(s, 0, 0, 0) : s \in 0..1}
      [] v.k = "nil" -> TRUE
      [] Kind(v.k) = "Ptr" -> ~v.b
      [] OTHER -> FALSE

\* frac & ((1 << shift) - 1) == 0 on the fields f, for 26 <= shift <= 52
LowBitsZero(f, shift) == f.lo = 0 /\ f.hi % 2^(shift - 26) = 0

\* frac >> shift on the fields f, for 26 <= shift <= 52
ShiftFrac(f, shift) == f.hi \div 2^(shift - 26)

\* writeUint16 and writeUint32 of a value below 2^31 under its sign bit
Float16Bytes(sign, n) == <<sign * 128 + n \div 256, n % 256>>
Float32Bytes(sign, n) ==
    <<sign * 128 + n \div 2^24, (n \div 2^16) % 256, (n \div 256) % 256, n % 256>>

\* encodeFloat64 that takes a value for a half when the low 41 bits of its
\* fraction are zero, the 42nd left untested
encodeFloat64Mask41(w) ==
    LET f == Float64Fields(w)
        exp == f.exp - 1023
    IN  IF -14 <= exp /\ exp <= 15 /\ f.lo = 0 /\ f.hi % 2^15 = 0
        THEN <<\hF9>> \o Float16Bytes(f.sign, (exp + 15) * 2^10 + ShiftFrac(f, 42))
        ELSE <<\hFB>> \o w
\* w is math.Float64bits(v); shift16 and shift32 are the shifts of the two
\* subnormal cases, frac | 1<<52 is the fraction under its hidden bit
encodeFloat64(w) ==
    LET f == Float64Fields(w)
        exp == f.exp - 1023
        zero == f.hi = 0 /\ f.lo = 0
        shift16 == -exp + 53 - 24 - 1
        shift32 == -exp + 53 - 149 - 1
    IN  IF exp = -1023 /\ zero THEN <<\hF9, f.sign * 128, \h00>>
        ELSE IF exp = 1024 /\ zero THEN <<\hF9, f.sign * 128 + \h7C, \h00>>
        ELSE IF exp = 1024 /\ f.hi >= 2^25 THEN <<\hF9, \h7E, \h00>>
        ELSE IF -24 <= exp /\ exp < -14 /\ LowBitsZero(f, shift16)
        THEN <<\hF9>> \o Float16Bytes(f.sign, 2^(52 - shift16) + ShiftFrac(f, shift16))
        ELSE IF -14 <= exp /\ exp <= 15 /\ LowBitsZero(f, 42)
        THEN <<\hF9>> \o Float16Bytes(f.sign, (exp + 15) * 2^10 + ShiftFrac(f, 42))
        ELSE IF -149 <= exp /\ exp < -126 /\ LowBitsZero(f, shift32)
        THEN <<\hFA>> \o Float32Bytes(f.sign, 2^(52 - shift32) + ShiftFrac(f, shift32))
        ELSE IF -126 <= exp /\ exp <= 127 /\ LowBitsZero(f, 29)
        THEN <<\hFA>> \o Float32Bytes(f.sign, (exp + 127) * 2^23 + ShiftFrac(f, 29))
        ELSE <<\hFB>> \o w

simpleEncoder(v) ==
    IF v.n < 24 THEN Enc(<<\hE0 + v.n>>, NoErr)
    ELSE IF v.n < 32 THEN Enc(<<>>, plainError("cbor: reserved simple value"))
    ELSE Enc(<<\hF8, v.n>>, NoErr)

\* the head sliceEncoder writes for a slice or an array of l elements
sliceHead(l) ==
    IF l < \h17 THEN <<\h80 + l>>
    ELSE IF l < \h100 THEN <<\h98, l>>
    ELSE <<\h99, l \div 256, l % 256>>

RECURSIVE encodeValue(_, _, _)
RECURSIVE encodeAll(_, _, _)
RECURSIVE encodeKeys(_, _, _)
RECURSIVE encodeEntries(_, _, _)

\* the encodings of the values xs one after the other, up to the first error
encodeAll(hp, xs, depth) ==
    IF xs = <<>> THEN Enc(<<>>, NoErr)
    ELSE With(encodeValue(hp, Head(xs), depth), LAMBDA r :
           IF r.err.kind # "nil" THEN r
           ELSE With(encodeAll(hp, Tail(xs), depth), LAMBDA rest :
                  Enc(r.bytes \o rest.bytes, rest.err)))

\* mapEncoder's first loop: Marshal(key) of every key, with the key's value;
\* xs gives the entries, the error is the first one a key gave
encodeKeys(hp, pairs, depth) ==
    IF pairs = <<>> THEN Loop(<<>>, <<>>, NoErr)
    ELSE With(encodeValue(hp, Head(pairs)[1], depth), LAMBDA r :
           IF r.err.kind # "nil" THEN Loop(<<>>, <<>>, r.err)
           ELSE With(encodeKeys(hp, Tail(pairs), depth), LAMBDA rest :
                  Loop(<<>>, <<[encodedKey |-> r.bytes, value |-> Head(pairs)[2]]>>
                             \o rest.xs, rest.err)))

\* mapEncoder's second loop and the loops of the struct encoders: the
\* encoded key (if any) and then the value of every entry
encodeEntries(hp, entries, depth) ==
    IF entries = <<>> THEN Enc(<<>>, NoErr)
    ELSE With(encodeValue(hp, Head(entries).value, depth), LAMBDA r :
           IF r.err.kind # "nil" THEN r
           ELSE With(encodeEntries(hp, Tail(entries), depth), LAMBDA rest :
                  Enc(Head(entries).encodedKey \o r.bytes \o rest.bytes, rest.err)))

\* the entries a struct encoder writes: with asMap, the fields that are not
\* omitted, each with its encoded key; else every field without a key
structEntries(st, v, asMap) ==
    LET all == [i \in 1..Len(st.fields) |->
                   [encodedKey |-> IF asMap THEN st.fields[i].encodedKey ELSE <<>>,
                    value |-> v.xs[st.fields[i].index],
                    omit |-> asMap /\ st.fields[i].omitempty
                             /\ isEmptyValue(v.xs[st.fields[i].index])]]
    IN  SelectSeq(all, LAMBDA e : ~e.omit)

\* encodeState.encode and encodeReflectValue with the encoder of v's type
encodeValue(hp, v, depth) ==
    IF depth >= MaxStack
    THEN Enc(<<>>, fatalError("stack overflow"))
    ELSE With(depth + 1, LAMBDA below :
         CASE v.k = "nil" -> Enc(<<\hF6>>, NoErr)
               [] Kind(v.k) = "Int" -> Enc(encodeInt(v), NoErr)
               [] Kind(v.k) = "Uint" -> Enc(writeUint(0, v.xs), NoErr)
               [] Kind(v.k) = "Float" -> Enc(encodeFloat64(v.xs), NoErr)
               [] Kind(v.k) = "Bool" -> Enc(<<IF v.b THEN \hF5 ELSE \hF4>>, NoErr)
               [] Kind(v.k) = "String" -> Enc(encodeString(v.xs), NoErr)
               [] v.k = "[]uint8" -> Enc(writeUint(2, LenBytes(v.n)) \o Elems(v), NoErr)
               [] v.k = "Simple" -> simpleEncoder(v)
               [] v.k = "undefined" -> Enc(<<\hF7>>, NoErr)
               [] v.k = "Tag" ->
                    With(encodeValue(hp, v.xs[2], below), LAMBDA content :
                      Enc(writeUint(6, v.xs[1]) \o content.bytes, content.err))
               [] (Kind(v.k) = "Slice" /\ v.k # "[]uint8") \/ v.k \in {"[n]any", "[n]uint8"} ->
                    With(Elems(v), LAMBDA xs :
                      With(encodeAll(hp, xs, below), LAMBDA elems :
                        Enc(sliceHead(v.n) \o elems.bytes, elems.err)))
               [] Kind(v.k) = "Map" ->
                    With(encodeKeys(hp, v.xs, below), LAMBDA keys :
                      IF keys.err.kind # "nil" THEN Enc(<<>>, keys.err)
                      ELSE With(SortFields(keys.xs), LAMBDA sorted :
                             With(encodeEntries(hp, sorted, below), LAMBDA entries :
                               Enc(writeUint(5, LenBytes(Len(v.xs))) \o entries.bytes,
                                   entries.err))))
               [] v.k = "ref" -> encodeValue(hp, hp[v.n], depth)
               [] v.k = "*big.Float" ->
                    encodeValue(hp, [v EXCEPT !.k = "big.Float"], below)
               [] Kind(v.k) = "Ptr" /\ v.k # "*big.Float" ->
                    IF ~v.b THEN Enc(<<\hF6>>, NoErr)
                    ELSE encodeValue(hp, hp[v.n], below)
               [] Kind(v.k) = "Struct" ->
                    With(cachedStructType(v.k), LAMBDA st :
                      With(structEntries(st, v, ~st.toArray), LAMBDA es :
                        With(encodeEntries(hp, es, below), LAMBDA fields :
                          Enc(writeUint(IF st.toArray THEN 4 ELSE 5, LenBytes(Len(es)))
                              \o fields.bytes, fields.err))))
               [] OTHER -> Enc(<<>>, panicError("TODO implement")))

\* Marshal(v): the bytes are returned only without an error
Marshal(hp, v) ==
    With(encodeValue(hp, v, 0), LAMBDA r :
      IF r.err.kind # "nil" THEN Enc(<<>>, r.err) ELSE r)

\* the arguments of generated Marshal calls without pointers: integers on
\* both sides of the one-byte head, strings, a bool, nil, simple values
Scalars ==
    {IntVal("int64", FALSE, <<>>), IntVal("int64", FALSE, <<23>>),
     IntVal("int64", FALSE, <<24>>), IntVal("int64", TRUE, <<>>),
     StringVal(<<>>), StringVal(<<\h61>>), BoolVal(TRUE), NilVal,
     SimpleVal(1), SimpleVal(24)}

\* an argument of Marshal with its heap; cyclic: a pointer, a map or a slice
\* of it reaches itself
MarshalInput(hp, v, cyclic) == [heap |-> hp, v |-> v, cyclic |-> cyclic]

\* the three values of TestMarshal_Cycles
pointerCycle ==
    MarshalInput(<<StructVal("PointerCycle", <<PtrVal("*PointerCycle", 1)>>)>>,
                 PtrVal("*PointerCycle", 1), TRUE)

mapCycle ==
    MarshalInput(<<MapVal("map[string]any", <<(<<StringVal(<<\h61>>), Ref(2)>>)>>),
                   MapVal("map[string]any", <<(<<StringVal(<<\h62>>), Ref(1)>>)>>)>>,
                 Ref(1), TRUE)

sliceCycle ==
    MarshalInput(<<SliceVal("[]any", <<Ref(2)>>), SliceVal("[]any", <<Ref(1)>>)>>,
                 Ref(1), TRUE)

\* the keys of generated map[any]any values: int64(1) and uint64(1) are two
\* keys of a Go map
\* float64 values by their bits: both signs; the exponents at both ends of
\* every range encodeFloat64 tests, of the subnormals, of 1.0 and of the
\* infinities and NaNs; fractions whose lowest set bit lies on both sides of
\* the last bit a half and a single keep
FloatInputs ==
    {Float64frombits(sign, exp, hi, lo) :
        sign \in 0..1,
        exp \in {0, 1, 873, 874, 896, 897, 998, 999, 1008, 1009, 1023, 1038, 1039,
                 1150, 1151, 2046, 2047},
        hi \in {0, 2^25, 2^17, 2^16, 2^15, 2^4, 2^3, 2^2, 2^26 - 1},
        lo \in 0..1}

MarshalKeys ==
    {IntVal("int64", FALSE, <<1>>), IntVal("uint64", FALSE, <<1>>),
     IntVal("int64", FALSE, <<24>>), StringVal(<<\h61>>)}

\* scalars, slices of them, values on both sides of every width of a head,
\* slices of 22 to 24 elements, maps in every order MapKeys can give their
\* keys in, and structs
MarshalInputs ==
    {MarshalInput(<<>>, v, FALSE) : v \in Scalars}
    \cup {MarshalInput(<<>>, SliceVal("[]any", q), FALSE) : q \in SeqsUpTo(Scalars, MaxElems)}
    \cup {MarshalInput(<<>>, v, FALSE) :
             v \in {IntVal("int64", FALSE, <<255>>), IntVal("int64", FALSE, <<1, 0>>),
                    IntVal("int64", TRUE, <<1, 0, 0>>),
                    IntVal("uint64", FALSE, <<1, 0, 0, 0, 0>>),
                    StringVal([i \in 1..24 |-> \h61]), BytesVal([i \in 1..23 |-> 0]),
                    TagVal(<<23>>, NilVal), TagVal(<<24>>, NilVal),
                    TagVal(<<1, 0>>, NilVal)}}
    \cup {MarshalInput(<<>>, SliceVal("[]any", [i \in 1..n |-> NilVal]), FALSE) :
             n \in 22..24}
    \cup {MarshalInput(<<>>, MapVal("map[any]any", [i \in 1..Len(q) |-> <<q[i], NilVal>>]),
                       FALSE) :
             q \in {s \in SeqsUpTo(MarshalKeys, MaxPairs) :
                       \A i, j \in 1..Len(s) : i # j => s[i] # s[j]}}
    \cup {MarshalInput(<<>>, v, FALSE) :
             v \in {StructVal("FooA", <<IntVal("int", FALSE, <<1>>), StringVal(<<\h61>>)>>),
                    StructVal("FooB", <<IntVal("int", FALSE, <<>>), BytesVal(<<1>>)>>),
                    StructVal("FooB", <<IntVal("int", TRUE, <<>>), BytesVal(<<>>)>>)}}
    \cup {MarshalInput(<<v>>, PtrVal("*int64", a), FALSE) :
             v \in {IntVal("int64", FALSE, <<1>>)}, a \in 0..1}
    \cup {MarshalInput(<<StructVal("PointerCycle", <<PtrVal("*PointerCycle", 0)>>)>>,
                       PtrVal("*PointerCycle", 1), FALSE)}
    \cup {MarshalInput(<<>>, FloatVal(w), FALSE) : w \in FloatInputs}
    \cup {MarshalInput(<<>>, BigFloatVal("*big.Float", neg, mag, exp), FALSE) :
             neg \in BOOLEAN, mag \in {<<>>, <<1>>, <<3>>, <<\h11>>, <<1, 0, 0, 0, 0, 0, 0, 0, 1>>},
             exp \in {-12337, -1, 0, 1, 64}}
    \cup {pointerCycle, mapCycle, sliceCycle}

InitMarshal ==
    /\ pc = "marshal"
    /\ UmIdle
    /\ DecIdle
    /\ EncIdle
    /\ CacheIdle
    /\ JsonIdle
    /\ EdnIdle
    /\ \E in \in MarshalInputs : heap = in.heap /\ mval = in.v
    /\ mret = [bytes |-> <<>>, err |-> NoErr]
    /\ fuzz = noFuzz

\* one call of Marshal; a fatal error ends the program
MarshalCall ==
    /\ pc = "marshal"
    /\ \E r \in {Marshal(heap, mval)} :
          /\ mret' = r
          /\ pc' = IF r.err.kind = "fatal" THEN "crashed" ELSE "marshalled"
    /\ UNCHANGED <<heap, mval, fuzz, umVars, decVars, encVars, cacheVars, jsonVars, ednVars>>

NextMarshal == MarshalCall

SpecMarshal == InitMarshal /\ [][NextMarshal]_vars

-----------------------------------------------------------------------------
(* FuzzUnmarshal: decode, encode, decode and encode again.                 *)

\* cmp.Diff(v, w, cmpopts.EquateNaNs()) == "": values of one type with equal
\* parts, the entries of a map in any order, a time by its Equal method, two
\* NaNs equal
RECURSIVE equateNaNs(_, _)
equateNaNs(v, w) ==
    IF v.k # w.k THEN FALSE
    ELSE CASE v.k = "float64" -> v.xs = w.xs \/ (IsNaN(v.xs) /\ IsNaN(w.xs))
           [] v.k \in {"[]any", "[n]any"} ->
                v.n = w.n /\ \A i \in 1..v.n : equateNaNs(v.xs[i], w.xs[i])
           [] Kind(v.k) = "Map" ->
                /\ Len(v.xs) = Len(w.xs)
                /\ \A i \in 1..Len(v.xs) : \E j \in 1..Len(w.xs) :
                      v.xs[i][1] = w.xs[j][1] /\ equateNaNs(v.xs[i][2], w.xs[j][2])
           [] v.k = "Tag" -> v.xs[1] = w.xs[1] /\ equateNaNs(v.xs[2], w.xs[2])
           [] OTHER -> v = w

\* the body of the fuzz function after Unmarshal(a, &v) gave v without an
\* error: every t.Error sets failed, and the function goes on
roundTrip(v) ==
    With(Marshal(<<>>, v), LAMBDA b :
      With(Unmarshal(b.bytes, TRUE, "any", NilVal), LAMBDA w :
        With(Marshal(<<>>, w.v), LAMBDA c :
          [b |-> b,
           after |-> [w |-> w.v, werr |-> w.err, c |-> c,
                      failed |-> \/ b.err.kind # "nil"
                                 \/ w.err.kind # "nil"
                                 \/ ~equateNaNs(v, w.v)
                                 \/ c.err.kind # "nil"
                                 \/ b.bytes # c.bytes]])))

InitFuzz ==
    /\ pc = "idle"
    /\ UmIdle
    /\ DecIdle
    /\ EncIdle
    /\ MarIdle
    /\ CacheIdle
    /\ JsonIdle
    /\ EdnIdle

\* one run of the fuzz function on the input a; it returns at once when the
\* first Unmarshal gives an error
FuzzUnmarshal ==
    /\ pc = "idle"
    /\ \E a \in Inputs :
          \E r \in {Unmarshal(a, TRUE, "any", NilVal)} :
              /\ data' = a
              /\ target' = "any"
              /\ ptr' = TRUE
              /\ dst0' = NilVal
              /\ dst' = r.v
              /\ ret' = r.err
              /\ dstate' = r.d
              /\ IF r.err.kind # "nil"
                 THEN UNCHANGED <<mval, mret, fuzz>>
                 ELSE \E f \in {roundTrip(r.v)} :
                         mval' = r.v /\ mret' = f.b /\ fuzz' = f.after
    /\ pc' = "fuzzed"
    /\ UNCHANGED <<wf, heap, decVars, encVars, cacheVars, jsonVars, ednVars>>

NextFuzz == FuzzUnmarshal

SpecFuzz == InitFuzz /\ [][NextFuzz]_vars

\* m * 2^e with the factors of two moved out of the magnitude m
RECURSIVE oddMantissa(_, _)
oddMantissa(m, e) ==
    IF m = <<>> THEN <<m, 0>>
    ELSE IF m[Len(m)] % 2 = 1 THEN <<m, e>>
    ELSE oddMantissa(Normalize(ShiftRight(m, 1)), e + 1)

\* x.Cmp(y) == 0 for two big floats
sameBigFloat(x, y) ==
    /\ oddMantissa(x.xs, x.n) = oddMantissa(y.xs, y.n)
    /\ (x.xs # <<>> => x.b = y.b)

\* C17: Marshal of an arbitrary-precision float r = m * 2^e emits tag 5 with
\* the array [exponent, mantissa] of value r, and decoding those bytes into
\* an arbitrary-precision float gives a value that compares equal to r.
C17_BigFloatRoundTrips ==
    (pc = "marshalled" /\ mval.k = "*big.Float")
        => /\ mret.err.kind = "nil"
           /\ Len(mret.bytes) >= 2 /\ SubSeq(mret.bytes, 1, 2) = <<\hC5, \h82>>
           /\ Unmarshal(mret.bytes, TRUE, "big.Float", Zero("big.Float")).err.kind
                  = "nil"
           /\ sameBigFloat(
                  Unmarshal(mret.bytes, TRUE, "big.Float", Zero("big.Float")).v, mval)

\* -17 * 2^-12337 is written as an empty map
C17_BigFloatAsEmptyMap ==
    /\ pc = "marshalled"
    /\ mval = BigFloatVal("*big.Float", TRUE, <<\h11>>, -12337)
    /\ mret = Enc(<<\hA0>>, NoErr)

\* C16: when Unmarshal of the input into an untyped target succeeds with v,
\* Marshal(v) succeeds and is well-formed, Unmarshal of those bytes gives a
\* value equal to v (two NaNs equal), and Marshal of that value gives the
\* same bytes.
C16_RoundTripStable ==
    (pc = "fuzzed" /\ ret.kind = "nil")
        => /\ mret.err.kind = "nil"
           /\ WellFormed(mret.bytes)
           /\ fuzz.werr.kind = "nil"
           /\ equateNaNs(dst, fuzz.w)
           /\ fuzz.c = mret
           /\ ~fuzz.failed

\* tag 1 is decoded to a time, which Marshal writes as an empty map
C16_TimeComesBackAsMap ==
    /\ pc = "fuzzed" /\ data = <<\hC1, \h00>> /\ ret.kind = "nil"
    /\ dst = TimeVal(FALSE, <<>>, 0)
    /\ mret = Enc(<<\hA0>>, NoErr)
    /\ Kind(fuzz.w.k) = "Map" /\ fuzz.w.xs = <<>>
    /\ fuzz.failed

\* C10: Marshal of a value that contains a reference cycle through pointers,
\* maps or slices terminates and returns an UnsupportedValue error; it never
\* recurses without bound.
C10_CycleRejected ==
    (pc # "marshal" /\ MarshalInput(heap, mval, TRUE) \in MarshalInputs)
        => (pc = "marshalled" /\ mret.err.kind = "UnsupportedValueError")

\* C10, the divergence: Marshal of the pointer that points to its own struct
\* descends until the stack is exhausted and the program ends.
C10_StackExhausted ==
    /\ pc = "crashed"
    /\ MarshalInput(heap, mval, TRUE) = pointerCycle
    /\ mret.err.kind = "fatal"

\* the position after the n data items of definite length that start at
\* position i of b
RECURSIVE SkipItems(_, _, _)
SkipItems(b, i, n) ==
    IF n = 0 THEN i
    ELSE LET ai == b[i] % 32
             after == i + 1 + (IF ai < 24 THEN 0 ELSE 2 ^ (ai - 24))
             arg == IF ai < 24 THEN ai ELSE ArgValue(SubSeq(b, i + 1, after - 1))
             end == CASE b[i] \div 32 \in {0, 1, 7} -> after
                      [] b[i] \div 32 \in {2, 3} -> after + arg
                      [] b[i] \div 32 = 4 -> SkipItems(b, after, arg)
                      [] b[i] \div 32 = 5 -> SkipItems(b, after, 2 * arg)
                      [] b[i] \div 32 = 6 -> SkipItems(b, after, 1)
         IN  SkipItems(b, end, n - 1)

\* the positions of the heads of the n data items that start at position i
\* of b, the heads of the items nested in them included
RECURSIVE HeadPositions(_, _, _)
HeadPositions(b, i, n) ==
    IF n = 0 THEN {}
    ELSE LET ai == b[i] % 32
             after == i + 1 + (IF ai < 24 THEN 0 ELSE 2 ^ (ai - 24))
             arg == IF ai < 24 THEN ai ELSE ArgValue(SubSeq(b, i + 1, after - 1))
             nested == CASE b[i] \div 32 = 4 -> arg
                         [] b[i] \div 32 = 5 -> 2 * arg
                         [] b[i] \div 32 = 6 -> 1
                         [] OTHER -> 0
         IN  {i} \cup HeadPositions(b, after, nested)
                 \cup HeadPositions(b, SkipItems(b, i, 1), n - 1)

\* the argument of the head at position i of b is in the shortest form
ShortestForm(b, i) ==
    LET ai == b[i] % 32
    IN  CASE ai < 24 -> TRUE
          [] ai = 24 -> b[i + 1] >= 24
          [] ai = 25 -> b[i + 1] # 0
          [] ai = 26 -> b[i + 1] # 0 \/ b[i + 2] # 0
          [] ai = 27 -> \E k \in 1..4 : b[i + k] # 0

\* the encoded keys of the map whose head is at position i of b, in order
EncodedKeys(b, i) ==
    LET ai == b[i] % 32
        after == i + 1 + (IF ai < 24 THEN 0 ELSE 2 ^ (ai - 24))
        count == IF ai < 24 THEN ai ELSE ArgValue(SubSeq(b, i + 1, after - 1))
    IN  [k \in 1..count |->
            SubSeq(b, SkipItems(b, after, 2 * (k - 1)),
                   SkipItems(b, after, 2 * (k - 1) + 1) - 1)]

\* C11: in every map Marshal emits, from a Go map or from a struct, the
\* encoded keys of consecutive entries are strictly increasing in bytewise
\* lexicographic order.
C11_KeysStrictlyIncreasing ==
    (pc = "marshalled" /\ mret.err.kind = "nil")
        => \A i \in HeadPositions(mret.bytes, 1, 1) :
              mret.bytes[i] \div 32 = 5
                  => \A k \in 1..(Len(EncodedKeys(mret.bytes, i)) - 1) :
                        BytesLess(EncodedKeys(mret.bytes, i)[k],
                                  EncodedKeys(mret.bytes, i)[k + 1])

\* C11, the divergence: the map {int64(1): nil, uint64(1): nil} is emitted
\* with the key 01 twice
C11_KeyEmittedTwice ==
    /\ pc = "marshalled"
    /\ mval = MapVal("map[any]any", << <<IntVal("int64", FALSE, <<1>>), NilVal>>,
                                       <<IntVal("uint64", FALSE, <<1>>), NilVal>> >>)
    /\ mret = Enc(<<\hA2, \h01, \hF6, \h01, \hF6>>, NoErr)

\* C12: every head Marshal emits for an integer, a length, a count or a tag
\* number has its argument in the shortest form that holds it.
C12_ShortestHeads ==
    (pc = "marshalled" /\ mret.err.kind = "nil")
        => \A i \in HeadPositions(mret.bytes, 1, 1) :
              mret.bytes[i] \div 32 # 7 => ShortestForm(mret.bytes, i)

\* C12, the divergence: a slice of 23 elements gets the two-byte head 98 17
C12_LongHeadOfSlice ==
    /\ pc = "marshalled" /\ mval.k = "[]any" /\ mval.n = 23
    /\ mret.err.kind = "nil"
    /\ SubSeq(mret.bytes, 1, 2) = <<\h98, \h17>>

\* C13: Marshal of any NaN, whatever its sign, payload or signaling bit,
\* emits exactly the bytes F9 7E 00.
C13_NaNCanonical ==
    (pc = "marshalled" /\ mval.k = "float64" /\ IsNaN(mval.xs))
        => mret = Enc(<<\hF9, \h7E, \h00>>, NoErr)

\* a signaling NaN is written as a double with its payload
C13_SignalingNaNAsDouble ==
    /\ pc = "marshalled"
    /\ mval = FloatVal(<<\h7F, \hF0, 0, 0, 0, 0, 0, 1>>)
    /\ mret = Enc(<<\hFB, \h7F, \hF0, 0, 0, 0, 0, 0, 1>>, NoErr)

RECURSIVE TrailingZeros(_)
TrailingZeros(n) == IF n % 2 = 1 THEN 0 ELSE 1 + TrailingZeros(n \div 2)

\* The finite non-zero float64 w is m * 2^q for the odd integer m of
\* `bits' binary digits.
OddSignificand(w) ==
    LET f == Float64Fields(w)
        tz == IF f.lo # 0 THEN TrailingZeros(f.lo)
              ELSE IF f.hi # 0 THEN 26 + TrailingZeros(f.hi) ELSE 52
        len == IF f.exp # 0 THEN 53
               ELSE IF f.hi # 0 THEN 26 + Len64(f.hi) ELSE Len64(f.lo)
    IN  [bits |-> len - tz, q |-> (IF f.exp # 0 THEN f.exp - 1075 ELSE -1074) + tz]

\* w is a value of the binary format of precision p whose significands are
\* scaled by 2^qmin .. 2^qmax: a zero, an infinity, or m * 2^q with m widened
\* to at most p digits and the scale brought into range
InFormat(w, p, qmin, qmax) ==
    LET f == Float64Fields(w)
    IN  \/ f.hi = 0 /\ f.lo = 0 /\ f.exp \in {0, \h7FF}
        \/ /\ f.exp # \h7FF
           /\ f.hi # 0 \/ f.lo # 0 \/ f.exp # 0
           /\ OddSignificand(w).bits <= p
           /\ OddSignificand(w).q >= qmin
           /\ OddSignificand(w).q - (p - OddSignificand(w).bits) <= qmax

\* the head of the shortest of the three float forms that holds w exactly
ShortestFloatHead(w) ==
    IF InFormat(w, 11, -24, 5) THEN \hF9
    ELSE IF InFormat(w, 24, -149, 104) THEN \hFA ELSE \hFB

\* C14: for every float64 that is not a NaN, Marshal emits the shortest of
\* the 2-, 4- and 8-byte float forms that holds the value, and the bytes decode
\* back to a value bitwise equal to it.
C14_ShortestFloatRoundTrips ==
    (pc = "marshalled" /\ mval.k = "float64" /\ ~IsNaN(mval.xs))
        => /\ mret.err.kind = "nil"
           /\ mret.bytes[1] = ShortestFloatHead(mval.xs)
           /\ Len(mret.bytes) = CASE mret.bytes[1] = \hF9 -> 3
                                   [] mret.bytes[1] = \hFA -> 5
                                   [] mret.bytes[1] = \hFB -> 9
           /\ Unmarshal(mret.bytes, TRUE, "float64", Zero("float64"))
                  = Res(Unmarshal(mret.bytes, TRUE, "float64", Zero("float64")).d,
                        mval, NoErr)
           /\ Unmarshal(mret.bytes, TRUE, "any", NilVal).v = mval

\* the subnormal half -513 * 2^-24, written in two bytes
C14_SubnormalHalf ==
    /\ pc = "marshalled"
    /\ mval = FloatVal(Float64frombits(1, 1008, 2^17, 0))
    /\ mret = Enc(<<\hF9, \h82, \h01>>, NoErr)

-----------------------------------------------------------------------------
(* The stream Encoder.  The sink is an io.Writer whose Write either takes  *)
(* all the bytes or fails.                                                 *)

WriteError == plainError("write failed")

\* the values of generated Encode calls; Simple(24) is the one Marshal refuses
EncodeValues == {IntVal("int64", FALSE, <<1>>), StringVal(<<\h61>>), SimpleVal(24)}

\* Encoder.Encode(v): err is enc.err before the call and werr what the
\* sink's Write returns if it is called; wrote tells whether it was called
Encode(err, v, werr) ==
    IF err.kind # "nil" THEN [encErr |-> err, ret |-> err, wrote |-> FALSE, data |-> <<>>]
    ELSE With(Marshal(<<>>, v), LAMBDA m :
           IF m.err.kind # "nil"
           THEN [encErr |-> m.err, ret |-> m.err, wrote |-> FALSE, data |-> <<>>]
           ELSE [encErr |-> err, ret |-> werr, wrote |-> TRUE, data |-> m.bytes])

InitEncoder ==
    /\ pc = "encoder"
    /\ UmIdle
    /\ DecIdle
    /\ MarIdle
    /\ EncIdle
    /\ CacheIdle
    /\ JsonIdle
    /\ EdnIdle

EncodeCall ==
    /\ pc = "encoder"
    /\ Len(encLog) < MaxEncodes
    /\ \E v \in EncodeValues, werr \in {NoErr, WriteError} :
          \E r \in {Encode(encErr, v, werr)} :
              /\ encErr' = r.encErr
              /\ sink' = IF r.wrote THEN Append(sink, r.data) ELSE sink
              /\ encLog' = Append(encLog, [v |-> v, err |-> r.ret, wrote |-> r.wrote])
    /\ UNCHANGED <<pc, umVars, decVars, marVars, cacheVars, jsonVars, ednVars>>

NextEncoder == EncodeCall

SpecEncoder == InitEncoder /\ [][NextEncoder]_vars

\* C8: after an Encode call has returned an error, whether marshalling the
\* value failed or writing to the sink failed, every later Encode call on
\* that Encoder returns an error and writes no bytes to the sink.
C8_StickyError ==
    \A i, j \in 1..Len(encLog) :
        (i < j /\ encLog[i].err.kind # "nil")
            => (encLog[j].err.kind # "nil" /\ ~encLog[j].wrote)

\* C8, the divergence: the sink fails on the first value, and the second
\* Encode writes its value and returns nil.
C8_WriteAfterError ==
    /\ Len(encLog) = 2
    /\ encLog[1].err = WriteError
    /\ encLog[2].err.kind = "nil" /\ encLog[2].wrote
    /\ Len(sink) = 2

-----------------------------------------------------------------------------
(* The encoder cache.  Goroutines call Marshal concurrently, each on a     *)
(* value whose encoding starts in encodeReflectValue.  A goroutine is a    *)
(* stack of frames:                                                        *)
(*   [op "encode", t]        encodeReflectValue of a value of type t;      *)
(*   [op "typeEncoder", t, at, elem]   inside typeEncoder(t), about to     *)
(*       Load ("load"), to LoadOrStore ("store"), to call newTypeEncoder   *)
(*       ("build") or to call wg.Done and return ("done"); elem is the     *)
(*       elemEnc that newPtrEncoder obtained;                              *)
(*   [op "call", e]          about to call the encoderFunc e.              *)
(* An encoderFunc is Entry(o, t, real): the encoder goroutine o built for  *)
(* t (real) or the indirect func o stored for t, which waits on o's wg.    *)
(* isNil says whether the value at hand is a nil pointer: the pointer the  *)
(* goroutine passes is not nil, the Ptr field of its PointerCycle is.      *)

Goroutines == 1..MaxGoroutines

CacheTypes == {"int64", "*int64", "PointerCycle", "*PointerCycle", "chan int"}

\* the types of the values the goroutines pass to Marshal
MarshalTypes == {"*int64", "*PointerCycle", "chan int"}

Entry(o, t, real) == [owner |-> o, t |-> t, real |-> real]

NoEntry == Entry(0, "", FALSE)

PtrElem(t) == IF t = "*int64" THEN "int64" ELSE "PointerCycle"

Top(g) == gor[g].stack[Len(gor[g].stack)]

Pop(g) == SubSeq(gor[g].stack, 1, Len(gor[g].stack) - 1)

Running(g) == gor[g].status = "running" /\ gor[g].stack # <<>>

\* the stack after the frame on top of st has received the encoderFunc e
\* that typeEncoder returned
Deliver(st, e) ==
    LET top == st[Len(st)]
    IN  IF top.op = "typeEncoder"
        THEN [st EXCEPT ![Len(st)] = [top EXCEPT !.at = "done", !.elem = e]]
        ELSE [st EXCEPT ![Len(st)] = [op |-> "call", t |-> top.t, at |-> "", elem |-> e,
                                      isNil |-> top.isNil]]

Frame(op, t, at, isNil) == [op |-> op, t |-> t, at |-> at, elem |-> NoEntry, isNil |-> isNil]

\* the goroutine's status once its stack is st
StatusOf(st) == IF st = <<>> THEN "returned" ELSE "running"

SetStack(g, st) == gor' = [gor EXCEPT ![g] = [status |-> StatusOf(st), stack |-> st]]

InitCache ==
    /\ pc = "cache"
    /\ UmIdle
    /\ DecIdle
    /\ EncIdle
    /\ MarIdle
    /\ JsonIdle
    /\ EdnIdle
    /\ cache = [t \in CacheTypes |-> 0]
    /\ done = {}
    /\ captured = [k \in Goroutines \X CacheTypes |-> NoEntry]
    /\ gor = [g \in Goroutines |-> [status |-> "idle", stack |-> <<>>]]

\* goroutine g calls Marshal on a value of type t
StartMarshal(g) ==
    /\ gor[g].status = "idle"
    /\ \E t \in MarshalTypes : SetStack(g, <<Frame("encode", t, "", FALSE)>>)
    /\ UNCHANGED <<pc, cache, done, captured>>

\* encodeReflectValue calls typeEncoder(v.Type())
EncodeReflectValue(g) ==
    /\ Running(g) /\ Top(g).op = "encode"
    /\ SetStack(g, Append(gor[g].stack, Frame("typeEncoder", Top(g).t, "load", FALSE)))
    /\ UNCHANGED <<pc, cache, done, captured>>

\* encoderCache.Load(t), and the return if it finds an entry
CacheLoad(g) ==
    /\ Running(g) /\ Top(g).op = "typeEncoder" /\ Top(g).at = "load"
    /\ IF cache[Top(g).t] # 0
       THEN SetStack(g, Deliver(Pop(g), Entry(cache[Top(g).t], Top(g).t, FALSE)))
       ELSE SetStack(g, [gor[g].stack EXCEPT ![Len(gor[g].stack)].at = "store"])
    /\ UNCHANGED <<pc, cache, done, captured>>

\* wg.Add(1) and encoderCache.LoadOrStore(t, indirect func), and the return
\* if another goroutine's entry was loaded
CacheLoadOrStore(g) ==
    /\ Running(g) /\ Top(g).op = "typeEncoder" /\ Top(g).at = "store"
    /\ IF cache[Top(g).t] # 0
       THEN /\ SetStack(g, Deliver(Pop(g), Entry(cache[Top(g).t], Top(g).t, FALSE)))
            /\ UNCHANGED <<pc, cache>>
       ELSE /\ cache' = [cache EXCEPT ![Top(g).t] = g]
            /\ SetStack(g, [gor[g].stack EXCEPT ![Len(gor[g].stack)].at = "build"])
    /\ UNCHANGED <<pc, done, captured>>

\* newTypeEncoder(t): a pointer type calls typeEncoder for its element, a
\* kind without a case panics, every other type has its encoder at once.
\* The panic unwinds the call of Marshal: a caller that recovers goes on
\* without a result, otherwise the program exits.
NewTypeEncoder(g) ==
    /\ Running(g) /\ Top(g).op = "typeEncoder" /\ Top(g).at = "build"
    /\ CASE Kind(Top(g).t) = "Ptr" ->
              /\ SetStack(g, Append(gor[g].stack,
                                    Frame("typeEncoder", PtrElem(Top(g).t), "load", FALSE)))
              /\ UNCHANGED pc
         [] Kind(Top(g).t) = "Chan" ->
              /\ gor' = [gor EXCEPT ![g] = [status |-> "panicked", stack |-> <<>>]]
              /\ pc' \in {"cache", "crashed"}
         [] OTHER ->
              /\ SetStack(g, [gor[g].stack EXCEPT ![Len(gor[g].stack)].at = "done"])
              /\ UNCHANGED pc
    /\ UNCHANGED <<cache, done, captured>>

\* f = the encoder built; wg.Done(); return f
WgDone(g) ==
    /\ Running(g) /\ Top(g).op = "typeEncoder" /\ Top(g).at = "done"
    /\ done' = done \cup {<<g, Top(g).t>>}
    /\ captured' = [captured EXCEPT ![<<g, Top(g).t>>] = Top(g).elem]
    /\ SetStack(g, Deliver(Pop(g), Entry(g, Top(g).t, TRUE)))
    /\ UNCHANGED <<pc, cache>>

\* whether a call of the encoderFunc e gets past wg.Wait()
Released(e) == e.real \/ <<e.owner, e.t>> \in done

\* the call of an encoderFunc: an indirect func waits for its wg first; then
\* the pointer encoder calls its elemEnc (or writes null), the struct encoder
\* encodes the Ptr field through encodeReflectValue, the others write and return
CallEncoder(g) ==
    /\ Running(g) /\ Top(g).op = "call"
    /\ Released(Top(g).elem)
    /\ LET e == Top(g).elem
           st == gor[g].stack
       IN  CASE Kind(e.t) = "Ptr" /\ ~Top(g).isNil ->
                  SetStack(g, [st EXCEPT ![Len(st)] =
                                   [Top(g) EXCEPT !.t = PtrElem(e.t),
                                                  !.elem = captured[<<e.owner, e.t>>]]])
             [] Kind(e.t) = "Struct" ->
                  SetStack(g, [st EXCEPT ![Len(st)] = Frame("encode", "*PointerCycle", "", TRUE)])
             [] OTHER -> SetStack(g, Pop(g))
    /\ UNCHANGED <<pc, cache, done, captured>>

Step(g) ==
    /\ pc = "cache"
    /\ \/ StartMarshal(g)
       \/ EncodeReflectValue(g)
       \/ CacheLoad(g)
       \/ CacheLoadOrStore(g)
       \/ NewTypeEncoder(g)
       \/ WgDone(g)
       \/ CallEncoder(g)
    /\ UNCHANGED <<umVars, decVars, encVars, marVars, jsonVars, ednVars>>

NextCache == \E g \in Goroutines : Step(g)

\* the scheduler runs every goroutine that can take a step
SpecCache == InitCache /\ [][NextCache]_vars /\ \A g \in Goroutines : WF_vars(Step(g))

\* goroutine g holds an indirect func and has not got past its wg.Wait()
HoldsPlaceholder(g) ==
    Running(g) /\ Top(g).op = "call" /\ ~Top(g).elem.real

\* C9: first-time encoder lookups for the same type or for recursive types,
\* made by concurrent Marshal calls, never deadlock: every caller that
\* obtained the indirect placeholder entry is eventually released and runs
\* the real encoder for its type.
C9_PlaceholderReleased ==
    \A g \in Goroutines : HoldsPlaceholder(g) ~> ~HoldsPlaceholder(g)

\* C9, the divergence: a goroutine waits on the indirect func of a goroutine
\* whose newTypeEncoder panicked, so that wg.Done() will never run.
C9_WaitsForPanicked ==
    \E g \in Goroutines :
        /\ HoldsPlaceholder(g)
        /\ gor[Top(g).elem.owner].status = "panicked"
        /\ ~Released(Top(g).elem)

-----------------------------------------------------------------------------
(* Integer as JSON.  A literal is a sequence of ASCII bytes; the receiver   *)
(* starts as the zero Integer.                                             *)

\* strconv.FormatUint(v, 10) of the magnitude mag: long division by ten
RECURSIVE divideBy10(_, _)
divideBy10(w, rem) ==
    IF w = <<>> THEN [quo |-> <<>>, rem |-> rem]
    ELSE With(divideBy10(Tail(w), (rem * 256 + Head(w)) % 10), LAMBDA r :
           [quo |-> <<(rem * 256 + Head(w)) \div 10>> \o r.quo, rem |-> r.rem])
RECURSIVE FormatUint(_)
FormatUint(mag) ==
    IF mag = <<>> THEN <<48>>
    ELSE With(divideBy10(mag, 0), LAMBDA r :
           IF Normalize(r.quo) = <<>> THEN <<48 + r.rem>>
           ELSE FormatUint(Normalize(r.quo)) \o <<48 + r.rem>>)

\* Integer.String: a negative Integer is -(Value + 1)
String(i) ==
    IF i.b
    THEN IF i.xs = <<255, 255, 255, 255, 255, 255, 255, 255>>
         THEN <<45, 49, 56, 52, 52, 54, 55, 52, 52, 48, 55, 51, 55, 48, 57, 53, 53, 49,
                54, 49, 54>>
         ELSE <<45>> \o FormatUint(MagInc(i.xs))
    ELSE FormatUint(i.xs)

\* lo * 10 + d on the eight bytes of lo: byte 1 of the result is what goes
\* into hi (h of bits.Mul64 and the carry of bits.Add64), the rest is lo
RECURSIVE mulAdd(_, _)
mulAdd(w, carry) ==
    IF w = <<>> THEN <<carry>>
    ELSE mulAdd(SubSeq(w, 1, Len(w) - 1), (w[Len(w)] * 10 + carry) \div 256)
         \o <<(w[Len(w)] * 10 + carry) % 256>>

\* the loop over the digits of UnmarshalJSON with the accumulator hi, lo
RECURSIVE parseUint128(_, _, _)
parseUint128(b, hi, lo) ==
    IF b = <<>> THEN [hi |-> hi, lo |-> lo, err |-> NoErr]
    ELSE IF Head(b) < 48 \/ 57 < Head(b)
    THEN [hi |-> hi, lo |-> lo, err |-> plainError("cbor: invalid JSON string")]
    ELSE With(mulAdd(lo, Head(b) - 48), LAMBDA r :
           IF hi + r[1] > 0 /\ Normalize(Tail(r)) # <<>>
           THEN [hi |-> hi + r[1], lo |-> Tail(r),
                 err |-> plainError("cbor: integer overflow")]
           ELSE parseUint128(Tail(b), hi + r[1], Tail(r)))

\* what UnmarshalJSON does after the sign, which it has stored in i.Sign
\* already: an error leaves i.Value as it was
unmarshalDigits(i, sign, b) ==
    With(parseUint128(b, 0, <<0, 0, 0, 0, 0, 0, 0, 0>>), LAMBDA n :
      IF n.err.kind # "nil" THEN [i |-> [i EXCEPT !.b = sign], err |-> n.err]
      ELSE IF sign /\ n.hi = 0 /\ Normalize(n.lo) = <<>>
      THEN [i |-> Val("Integer", FALSE, 0, <<>>), err |-> NoErr]
      ELSE IF sign /\ n.hi = 1 /\ Normalize(n.lo) = <<>>
      THEN [i |-> Val("Integer", TRUE, 0, <<255, 255, 255, 255, 255, 255, 255, 255>>),
            err |-> NoErr]
      ELSE IF n.hi > 0
      THEN [i |-> [i EXCEPT !.b = sign], err |-> plainError("cbor: integer overflow")]
      ELSE IF sign   \* bits.Sub64(lo, 1, 0), as ^(^lo + 1)
      THEN [i |-> Val("Integer", TRUE, 0, Normalize(Complement(MagInc(Complement(n.lo))))),
            err |-> NoErr]
      ELSE [i |-> Val("Integer", FALSE, 0, Normalize(n.lo)), err |-> NoErr])

UnmarshalJSON(i, b) ==
    IF b = <<>> THEN [i |-> i, err |-> plainError("cbor: empty JSON string")]
    ELSE IF b[1] = 45 THEN unmarshalDigits(i, TRUE, Tail(b))
    ELSE IF b[1] = 43 THEN unmarshalDigits(i, FALSE, Tail(b))
    ELSE IF 48 <= b[1] /\ b[1] <= 57 THEN unmarshalDigits(i, FALSE, b)
    ELSE [i |-> i, err |-> plainError("cbor: invalid JSON string")]

\* how many zeros follow the digits of 2^64 in the longest literals
MaxZeros == 2

\* the digits of 2^64 = 18446744073709551616
TwoTo64 == <<1, 8, 4, 4, 6, 7, 4, 4, 0, 7, 3, 7, 0, 9, 5, 5, 1, 6, 1, 6>>

\* the non-empty prefixes of a digit string
DigitPrefixes(s) == {SubSeq(s, 1, n) : n \in 1..Len(s)}

\* digit strings: the prefixes of 2^64 followed by zeros and of 2^64 - 1
\* followed by a nine, 2^64 + 1, twice 2^64 with and without zeros, zeros,
\* leading zeros, and only nines
DigitStrings ==
    DigitPrefixes(TwoTo64 \o [k \in 1..MaxZeros |-> 0])
    \cup DigitPrefixes([TwoTo64 EXCEPT ![20] = 5] \o <<9>>)
    \cup {[TwoTo64 EXCEPT ![20] = 7], <<0>>, <<0, 0>>, <<0, 0>> \o TwoTo64,
          <<0>> \o [TwoTo64 EXCEPT ![20] = 5], [k \in 1..20 |-> 9]}
    \cup {<<3, 6, 8, 9, 3, 4, 8, 8, 1, 4, 7, 4, 1, 9, 1, 0, 3, 2, 3, 2>>
             \o [k \in 1..z |-> 0] : z \in 0..MaxZeros}

\* the literals: digits with no sign, with '+' and with '-'; and four
\* arguments that are no literal
JSONInputs ==
    {sign \o [k \in 1..Len(ds) |-> 48 + ds[k]] :
        sign \in {<<>>, <<43>>, <<45>>}, ds \in DigitStrings}
    \cup {<<>>, <<45>>, <<49, 97>>, <<97>>}

InitJSON ==
    /\ pc = "json"
    /\ UmIdle
    /\ DecIdle
    /\ EncIdle
    /\ MarIdle
    /\ CacheIdle
    /\ EdnIdle
    /\ \E b \in JSONInputs :
          json = [b |-> b, i |-> Val("Integer", FALSE, 0, <<>>), err |-> NoErr]

\* one call of i.UnmarshalJSON(b)
UnmarshalJSONCall ==
    /\ pc = "json"
    /\ \E r \in {UnmarshalJSON(json.i, json.b)} :
          json' = [json EXCEPT !.i = r.i, !.err = r.err]
    /\ pc' = "parsed"
    /\ UNCHANGED <<umVars, decVars, encVars, marVars, cacheVars, ednVars>>

NextJSON == UnmarshalJSONCall

SpecJSON == InitJSON /\ [][NextJSON]_vars

\* the digits of a literal without its sign and its leading zeros, as numbers
RECURSIVE stripZeros(_)
stripZeros(ds) == IF ds # <<>> /\ Head(ds) = 0 THEN stripZeros(Tail(ds)) ELSE ds
LiteralDigits(b) ==
    stripZeros([k \in 1..Len(IF b[1] \in {43, 45} THEN Tail(b) ELSE b) |->
                   (IF b[1] \in {43, 45} THEN Tail(b) ELSE b)[k] - 48])

\* b is a decimal literal: an optional sign and at least one digit
IsLiteral(b) ==
    /\ b # <<>>
    /\ Len(b) > (IF b[1] \in {43, 45} THEN 1 ELSE 0)
    /\ \A k \in 1..Len(b) : b[k] \in 48..57 \/ (k = 1 /\ b[k] \in {43, 45})

\* the value of the literal b lies in -2^64 .. 2^64 - 1
LiteralInRange(b) ==
    \/ Len(LiteralDigits(b)) < 20
    \/ Len(LiteralDigits(b)) = 20 /\ BytesLess(LiteralDigits(b), TwoTo64)
    \/ b[1] = 45 /\ LiteralDigits(b) = TwoTo64

\* C18: Integer.UnmarshalJSON accepts a decimal literal with an optional
\* leading '+' or '-' exactly when its value lies in -2^64 .. 2^64-1, storing
\* the matching sign and magnitude (String gives the literal back without
\* '+' and leading zeros), and returns an overflow error for every literal
\* outside that range, however many digits it has.
C18_RangeOfJSONInteger ==
    (pc = "parsed" /\ IsLiteral(json.b))
        => IF LiteralInRange(json.b)
           THEN /\ json.err.kind = "nil"
                /\ String(json.i)
                      = (IF json.b[1] = 45 /\ LiteralDigits(json.b) # <<>>
                         THEN <<45>> ELSE <<>>)
                        \o (IF LiteralDigits(json.b) = <<>> THEN <<48>>
                            ELSE [k \in 1..Len(LiteralDigits(json.b)) |->
                                     48 + LiteralDigits(json.b)[k]])
           ELSE json.err = plainError("cbor: integer overflow")

\* -184467440737095516160, ten times -2^64, is stored as -2^64
C18_TenTimesTwoTo64Accepted ==
    /\ pc = "parsed"
    /\ json.b = <<45>> \o [k \in 1..21 |-> 48 + (TwoTo64 \o <<0>>)[k]]
    /\ json.err.kind = "nil"
    /\ json.i = Val("Integer", TRUE, 0, <<255, 255, 255, 255, 255, 255, 255, 255>>)

-----------------------------------------------------------------------------
(* Properties of Unmarshal that are stated on the items of the input.      *)

\* the maps of definite length among the inputs
DefiniteMaps ==
    MapKeyInputs
    \cup {Container(5, Len(q), q, TRUE) :
             q \in SeqsUpTo({k \o v : k \in Keys, v \in Vals}, MaxPairs)}

\* the item b holds a map
HoldsMap(b) == \E j \in HeadPositions(b, 1, 1) : b[j] \div 32 = 5

\* a map of b, b itself or one nested in it, has a key that is a map or
\* holds one
MapInKey(b) ==
    \E i \in HeadPositions(b, 1, 1) :
        /\ b[i] \div 32 = 5
        /\ \E k \in 1..Len(EncodedKeys(b, i)) : HoldsMap(EncodedKeys(b, i)[k])

\* C25: decoded into a mapping target, a map that is a map key or is nested
\* in one is rejected with a syntax error, and a map that is a map value is
\* never rejected as a key: the decoding-key flag is set for the duration of
\* each key only, and is clear after the call.
C25_MapKeysRejectedValuesAccepted ==
    (pc = "done" /\ ptr /\ target \in {"any", "map[string]int64"}
     /\ data \in DefiniteMaps)
        => /\ MapInKey(data) => ret.kind = "SyntaxError"
           /\ ~MapInKey(data) => ret.msg # "cbor: unexpected map key"
           /\ ~dstate.decodingKeys

\* C25, the divergence: {"A": [0], {}: 0} into a map[string]int64; the
\* element of the array is read as the second key and the map as its value,
\* and the call returns the type error of the array
C25_MapKeyReadAsValue ==
    /\ pc = "done" /\ ptr /\ target = "map[string]int64"
    /\ data = <<\hA2, \h61, \h41, \h81, \h00, \hA0, \h00>>
    /\ ret.kind = "UnmarshalTypeError" /\ ret.Value = "array" /\ ret.Offset = 3
    /\ dstate.off = 6
    /\ Len(dstate.errLog) = 3

\* C26: after the value decoder has handled one data item, assigned, skipped
\* or with a deferred type error, the read offset is exactly at the first
\* byte after the item, so that every following sibling is decoded from its
\* own bytes.  Stated on the top-level item of a call that was not aborted.
C26_OffsetAfterItem ==
    (pc = "done" /\ ptr /\ WellFormed(data)
     /\ ret.kind \in {"nil", "UnmarshalTypeError"})
        => dstate.off = Len(data)

\* C26, the divergence: [[0], 1] into a []int64; the inner array gets its
\* type error, its element 0 is decoded as the second element of the outer
\* array and the 1 is never read
C26_SiblingFromElement ==
    /\ pc = "done" /\ ptr /\ target = "[]int64"
    /\ data = <<\h82, \h81, \h00, \h01>>
    /\ ret.kind = "UnmarshalTypeError" /\ ret.Value = "array" /\ ret.Offset = 1
    /\ Elems(dst) = <<IntVal("int64", FALSE, <<>>), IntVal("int64", FALSE, <<>>)>>
    /\ dstate.off = 3

\* C29: for every input and every non-nil pointer target, Unmarshal returns
\* with nil or an error and never faults at run time; a bigfloat whose
\* content is not an array of two elements, and an array or a map aimed at
\* an interface with methods, each give an error.
C29_NeverFaults ==
    (pc = "done" /\ ptr) => ret.kind # "panic"

\* C29, the divergence: tag 5 with an empty array into a big.Float; the
\* length is recorded as a type error and a[0] faults
C29_BigFloatIndexOutOfRange ==
    /\ pc = "done" /\ ptr /\ target = "big.Float"
    /\ data = <<\hC5, \h80>>
    /\ ret.kind = "panic"
    /\ dstate.savedError.kind = "UnmarshalTypeError"
    /\ dstate.savedError.Value = "bigfloat"

-----------------------------------------------------------------------------
(* DecodeEDN.  A text is a sequence of characters, each a string of length *)
(* one.  The decoder takes one step for the call and one step for each     *)
(* iteration of a loop of decodeArray.  edn.frames holds, from the         *)
(* outermost, the buffer of DecodeEDN's own state and one entry for each   *)
(* array whose loop is running: its encoding indicator, its count and the  *)
(* bytes of its elements so far (t.buf of a definite array; for an         *)
(* indefinite array the bytes s.buf has received since its 0x9f).          *)
(* edn.iters is a history field: the loop iterations made.  The numbers of *)
(* the texts are decimal integers; the other literals of decodeNumber,     *)
(* byte strings and text strings are outside the model.                    *)

\* the loop iterations one call is followed for
MaxIters == 260
\* elements of a generated array text
MaxEdnElems == 2
\* the smallest count that does not fit in one byte
EdnLongCount == 256

ErrUnexpectedEnd == plainError("cbor: unexpected end")

newSemanticError(msg) ==
    [NoErr EXCEPT !.kind = "SemanticError", !.msg = msg]

\* an error of a part of the decoder that is outside the model
outsideModel(d) ==
    [d EXCEPT !.err = [NoErr EXCEPT !.kind = "outside the model"]]

WhitespaceChars == {" ", "\t", "\r", "\n"}

DigitChars == <<"0", "1", "2", "3", "4", "5", "6", "7", "8", "9">>

IsDigit(ch) == \E i \in 1..10 : DigitChars[i] = ch

DigitValue(ch) == (CHOOSE i \in 1..10 : DigitChars[i] = ch) - 1

\* the characters the loop of decodeNumber accepts
NumberChars ==
    {DigitChars[i] : i \in 1..10}
    \cup {"+", "-", ".", "a", "b", "c", "d", "e", "f", "A", "B", "C", "D", "E", "F",
          "p", "P", "x", "X", "o", "O"}

\* bytes.HasPrefix(s.data[s.off:], word)
HasPrefix(d, word) ==
    /\ d.off + Len(word) <= Len(d.data)
    /\ SubSeq(d.data, d.off + 1, d.off + Len(word)) = word

\* s.writeByte and s.buf.Write: the bytes go to the innermost buffer
ednWrite(d, bytes) ==
    [d EXCEPT !.frames[Len(d.frames)].buf = @ \o bytes]

\* the head of the preferred serialization, whatever the indicator
ednWriteUintPreferred(major, ind, mag) ==
    writeUint(major, mag)

\* ednDecState.writeUint: the bytes it writes for the uint64 of magnitude mag
ednWriteUint(major, ind, mag) ==
    LET bits == major * 32
        fits == IF Len(mag) <= 1 THEN 0
                ELSE IF Len(mag) <= 2 THEN 1
                ELSE IF Len(mag) <= 4 THEN 2
                ELSE 3
        width == IF ind > fits THEN ind ELSE fits
    IN  IF ind < 0 /\ (mag = <<>> \/ (Len(mag) = 1 /\ mag[1] < 24))
        THEN <<bits + (IF mag = <<>> THEN 0 ELSE mag[1])>>
        ELSE CASE width = 0 -> <<bits + 24>> \o SubSeq(Pad8(mag), 8, 8)
               [] width = 1 -> <<bits + 25>> \o SubSeq(Pad8(mag), 7, 8)
               [] width = 2 -> <<bits + 26>> \o SubSeq(Pad8(mag), 5, 8)
               [] width = 3 -> <<bits + 27>> \o Pad8(mag)
               [] OTHER -> <<>>

\* the offset after the '/' that closes the comment whose text starts at
\* off, Len(data) + 1 where there is none
RECURSIVE commentEnd(_, _)
commentEnd(text, off) ==
    IF off >= Len(text) THEN Len(text) + 1
    ELSE IF text[off + 1] = "/" THEN off + 1
    ELSE commentEnd(text, off + 1)

RECURSIVE skipWhitespace(_)
skipWhitespace(d) ==
    IF d.off >= Len(d.data) THEN [d EXCEPT !.err = ErrUnexpectedEnd]
    ELSE IF d.data[d.off + 1] \in WhitespaceChars
    THEN skipWhitespace([d EXCEPT !.off = d.off + 1])
    ELSE IF d.data[d.off + 1] = "/"
    THEN IF commentEnd(d.data, d.off + 1) > Len(d.data)
         THEN [d EXCEPT !.off = Len(d.data), !.err = ErrUnexpectedEnd]
         ELSE skipWhitespace([d EXCEPT !.off = commentEnd(d.data, d.off + 1)])
    ELSE d

expectWhitespace(d) ==
    IF d.off >= Len(d.data) THEN [d EXCEPT !.err = ErrUnexpectedEnd]
    ELSE IF d.data[d.off + 1] \in WhitespaceChars
    THEN skipWhitespace([d EXCEPT !.off = d.off + 1])
    ELSE [d EXCEPT !.err = newSemanticError("cbor: expected whitespace")]

\* decodeEncodingIndicator: the state and the indicator it returns
decodeEncodingIndicator(d) ==
    IF d.off >= Len(d.data) THEN [d |-> [d EXCEPT !.err = ErrUnexpectedEnd], ind |-> -1]
    ELSE IF d.data[d.off + 1] # "_" THEN [d |-> d, ind |-> -1]
    ELSE IF d.off + 1 >= Len(d.data)
    THEN [d |-> [d EXCEPT !.off = d.off + 1, !.err = ErrUnexpectedEnd], ind |-> -1]
    ELSE IF d.data[d.off + 2] \in {"0", "1", "2", "3", "4", "5", "6", "7"}
    THEN [d |-> expectWhitespace([d EXCEPT !.off = d.off + 2]),
          ind |-> DigitValue(d.data[d.off + 2])]
    ELSE [d |-> expectWhitespace([d EXCEPT !.off = d.off + 1]), ind |-> 7]

\* big.Int.SetString of decimal digits: the low 64 bits lo and what lies
\* above them, hi, which stops at 2
RECURSIVE SetString(_, _, _)
SetString(ds, hi, lo) ==
    IF ds = <<>> THEN [hi |-> hi, lo |-> lo]
    ELSE With(mulAdd(lo, DigitValue(Head(ds))), LAMBDA r :
           SetString(Tail(ds), Min(hi * 10 + r[1], 2), Tail(r)))

\* whether str is a decimal integer: a sign or none, then digits that do
\* not start with a zero another digit follows
IsDecimal(str) ==
    LET ds == IF str # <<>> /\ str[1] \in {"+", "-"} THEN Tail(str) ELSE str
    IN  /\ ds # <<>>
        /\ \A i \in 1..Len(ds) : IsDigit(ds[i])
        /\ (Len(ds) = 1 \/ ds[1] # "0")

\* tryToDecodeInteger of a decimal integer
tryToDecodeInteger(d, str) ==
    With(SetString(IF str[1] \in {"+", "-"} THEN Tail(str) ELSE str, 0,
                   <<0, 0, 0, 0, 0, 0, 0, 0>>), LAMBDA i :
      IF str[1] # "-" \/ (i.hi = 0 /\ Normalize(i.lo) = <<>>)
      THEN IF i.hi = 0
           THEN ednWrite(d, ednWriteUint(0, -1, Normalize(i.lo)))
           ELSE [d EXCEPT !.err = newSemanticError("cbor: unsupported big.Int")]
      ELSE IF i.hi = 0   \* i.Not(i) is the magnitude less one
      THEN ednWrite(d, ednWriteUint(1, -1,
                        Normalize(Complement(MagInc(Complement(i.lo))))))
      ELSE IF i.hi = 1 /\ Normalize(i.lo) = <<>>
      THEN ednWrite(d, ednWriteUint(1, -1, <<255, 255, 255, 255, 255, 255, 255, 255>>))
      ELSE [d EXCEPT !.err = newSemanticError("cbor: unsupported big.Int")])

\* the end of the run of NumberChars that starts at off
RECURSIVE numberEnd(_, _)
numberEnd(text, off) ==
    IF off < Len(text) /\ text[off + 1] \in NumberChars
    THEN numberEnd(text, off + 1)
    ELSE off

decodeNumber(d) ==
    IF HasPrefix(d, <<"-", "I", "n", "f", "i", "n", "i", "t", "y">>)
    THEN ednWrite([d EXCEPT !.off = d.off + 9], <<\hF9, \hFC, \h00>>)
    ELSE IF HasPrefix(d, <<"+", "I", "n", "f", "i", "n", "i", "t", "y">>)
    THEN ednWrite([d EXCEPT !.off = d.off + 9], <<\hF9, \h7C, \h00>>)
    ELSE With(numberEnd(d.data, d.off), LAMBDA end :
           IF IsDecimal(Slice(d.data, d.off, end))
           THEN tryToDecodeInteger([d EXCEPT !.off = end], Slice(d.data, d.off, end))
           ELSE outsideModel([d EXCEPT !.off = end]))

\* the words decode knows by their first character, and their bytes
Keywords ==
    {[word |-> <<"N", "a", "N">>, bytes |-> <<\hF9, \h7E, \h00>>],
     [word |-> <<"I", "n", "f", "i", "n", "i", "t", "y">>, bytes |-> <<\hF9, \h7C, \h00>>],
     [word |-> <<"f", "a", "l", "s", "e">>, bytes |-> <<\hF4>>],
     [word |-> <<"t", "r", "u", "e">>, bytes |-> <<\hF5>>],
     [word |-> <<"n", "u", "l", "l">>, bytes |-> <<\hF6>>],
     [word |-> <<"u", "n", "d", "e", "f", "i", "n", "e", "d">>, bytes |-> <<\hF7>>]}

\* ednDecState.decodeArray up to its loop: the '[' and the indicator
ednDecodeArray(d) ==
    With(decodeEncodingIndicator([d EXCEPT !.off = d.off + 1]), LAMBDA r :
      IF r.d.err.kind # "nil" THEN r.d
      ELSE [r.d EXCEPT !.frames = Append(@, [ind |-> r.ind, count |-> 0, buf |-> <<>>])])

\* ednDecState.decode, up to the loop of the array it may begin
ednDecode(s) ==
    With(skipWhitespace(s), LAMBDA d :
      IF d.err.kind # "nil" THEN d
      ELSE IF d.data[d.off + 1] \in {"+", "-"} \/ IsDigit(d.data[d.off + 1])
      THEN decodeNumber(d)
      ELSE IF \E k \in Keywords : HasPrefix(d, k.word)
      THEN With(CHOOSE k \in Keywords : HasPrefix(d, k.word), LAMBDA k :
             ednWrite([d EXCEPT !.off = d.off + Len(k.word)], k.bytes))
      ELSE IF d.data[d.off + 1] \in {"h", "\""} THEN outsideModel(d)
      ELSE IF d.data[d.off + 1] = "[" THEN ednDecodeArray(d)
      ELSE d)

\* the end of decodeArray: the array's bytes go to the buffer of the caller
closeArray(d) ==
    With(d.frames[Len(d.frames)], LAMBDA f :
      ednWrite([d EXCEPT !.frames = SubSeq(@, 1, Len(@) - 1)],
               IF f.ind = 7 THEN <<\h9F>> \o f.buf \o <<\hFF>>
               ELSE ednWriteUint(4, f.ind, LenBytes(f.count)) \o f.buf))

\* one iteration of the loop of the innermost array
arrayIteration(s) ==
    With(skipWhitespace(s), LAMBDA d :
      IF d.err.kind # "nil" THEN d
      ELSE IF d.data[d.off + 1] = "]" THEN closeArray([d EXCEPT !.off = d.off + 1])
      ELSE IF d.frames[Len(d.frames)].ind = 7 THEN ednDecode(d)
      ELSE IF d.frames[Len(d.frames)].count = 0
      THEN ednDecode([d EXCEPT !.frames[Len(d.frames)].count = 1])
      ELSE IF d.data[d.off + 1] = ","
      THEN ednDecode([d EXCEPT !.off = d.off + 1, !.frames[Len(d.frames)].count = @ + 1])
      ELSE [d EXCEPT !.err = newSemanticError("cbor: expected comma")])

\* where DecodeEDN is after a step: in a loop of decodeArray, or returned
ednPosition(d) ==
    IF d.err.kind = "nil" /\ Len(d.frames) > 1 THEN "ednLoop" ELSE "ednDone"

\* what DecodeEDN returns
ednResult(d) ==
    IF d.err.kind # "nil" THEN [bytes |-> <<>>, err |-> d.err]
    ELSE [bytes |-> d.frames[1].buf, err |-> NoErr]

\* the elements of the generated arrays: a text and its bytes
EdnScalars ==
    {[text |-> <<"0">>, bytes |-> <<\h00>>],
     [text |-> <<"-", "2", "5">>, bytes |-> <<\h38, \h18>>],
     [text |-> <<"t", "r", "u", "e">>, bytes |-> <<\hF5>>]}

\* the ways an array text begins after its '['
EdnIndicators ==
    {<<>>, <<"_", " ">>, <<"_", "0", " ">>, <<"_", "1", " ">>, <<"_", "2", " ">>,
     <<"_", "3", " ">>, <<"_", "7", " ">>}

EdnSeparators == {<<",", " ">>, <<" ">>}

\* the array texts by their parts: the indicator, the elements and what
\* stands between two elements
EdnCases ==
    {[ind |-> i, elems |-> es, sep |-> sep] :
        i \in EdnIndicators, es \in SeqsUpTo(EdnScalars, MaxEdnElems),
        sep \in EdnSeparators}
    \cup {[ind |-> i, elems |-> [k \in 1..EdnLongCount |-> [text |-> <<"0">>, bytes |-> <<\h00>>]],
           sep |-> <<",", " ">>] : i \in {<<"_", "0", " ">>, <<"_", "1", " ">>}}

\* the sequences of ss one after the other, by halves
RECURSIVE Join(_)
Join(ss) ==
    IF Len(ss) = 0 THEN <<>>
    ELSE IF Len(ss) = 1 THEN ss[1]
    ELSE Join(SubSeq(ss, 1, Len(ss) \div 2))
         \o Join(SubSeq(ss, (Len(ss) \div 2) + 1, Len(ss)))

ArrayText(c) ==
    <<"[">> \o c.ind
    \o Join([k \in 1..Len(c.elems) |->
               (IF k > 1 THEN c.sep ELSE <<>>) \o c.elems[k].text])
    \o <<"]">>

\* texts that nest arrays, texts with comments, and texts that are cut
\* short or hold a character no item begins with
EdnOtherTexts ==
    {<<>>, <<"0">>, <<" ", "/", "c", "/", " ", "2", "4">>, <<"x">>, <<"+", "7">>,
     <<"+", "I", "n", "f", "i", "n", "i", "t", "y">>, <<"n", "u", "l", "l">>,
     <<"[">>, <<"[", "_">>, <<"[", "_", "]">>, <<"[", "_", "0", "]">>,
     <<"[", "_", " ", "0">>, <<"[", "_", " ", "x", "]">>, <<"[", "x", "]">>,
     <<"[", "0", ",", " ", "x", "]">>,
     <<"[", "_", " ", "/", "c", "/", " ", "0", "]">>,
     <<"[", "_", "3", " ", "[", "_", " ", "0", "]", "]">>,
     <<"[", "_", " ", "[", "_", "0", " ", "0", ",", " ", "1", "]", " ", "1", "]">>,
     <<"[", "0", ",", " ", "[", "_", " ", "1", ",", " ", "2", "]", "]">>,
     <<"[", "_", "4", " ", "0", "]">>}

EdnInputs == {ArrayText(c) : c \in EdnCases} \cup EdnOtherTexts

InitEDN ==
    /\ pc = "edn"
    /\ UmIdle
    /\ DecIdle
    /\ EncIdle
    /\ MarIdle
    /\ CacheIdle
    /\ JsonIdle
    /\ \E text \in EdnInputs : edn = newEdnDecState(text)

\* DecodeEDN(data) up to the first loop of decodeArray, or to its return
DecodeEDNCall ==
    /\ pc = "edn"
    /\ \E r \in {ednDecode(edn)} :
          /\ edn' = r
          /\ pc' = ednPosition(r)
    /\ UNCHANGED <<umVars, decVars, encVars, marVars, cacheVars, jsonVars>>

\* one iteration of the loop of decodeArray that is running
ArrayIterate ==
    /\ pc = "ednLoop"
    /\ edn.iters < MaxIters
    /\ \E r \in {arrayIteration(edn)} :
          /\ edn' = [r EXCEPT !.iters = edn.iters + 1]
          /\ pc' = ednPosition(r)
    /\ UNCHANGED <<umVars, decVars, encVars, marVars, cacheVars, jsonVars>>

NextEDN == DecodeEDNCall \/ ArrayIterate

SpecEDN == InitEDN /\ [][NextEDN]_vars

-----------------------------------------------------------------------------
(* Properties of DecodeEDN.                                                *)

\* the indicators of the generated arrays that are a digit from 0 to 3
WidthIndicators ==
    {<<"_", "0", " ">>, <<"_", "1", " ">>, <<"_", "2", " ">>, <<"_", "3", " ">>}

\* the bytes of the elements of a generated array, in order
ElemBytes(c) == Join([k \in 1..Len(c.elems) |-> c.elems[k].bytes])

\* an array head with the additional information 24 + w and the count n
\* in the 2^w bytes that follow it
WideHead(w, n) == <<\h98 + w>> \o SubSeq(Pad8(LenBytes(n)), 9 - (2 ^ w), 8)

\* the least w whose 2^w bytes hold n
LeastWidth(n) == IF n < 256 THEN 0 ELSE IF n < 65536 THEN 1 ELSE 2

\* whether DecodeEDN has returned bytes for the generated array c
Returned(c) ==
    /\ pc = "ednDone"
    /\ edn.err.kind = "nil"
    /\ edn.data = ArrayText(c)

C30_IterationsAdvance ==
    [][pc = "ednLoop" => (edn'.off > edn.off \/ edn'.err.kind # "nil")]_vars

\* the loop of an indefinite-length array has run MaxIters times and
\* stands at the comma after its first element
C30_LoopAtTheComma ==
    /\ pc = "ednLoop"
    /\ edn.iters = MaxIters
    /\ edn.frames[Len(edn.frames)].buf = <<\h00>>
    /\ SubSeq(edn.data, 1, 3) = <<"[", "_", " ">>
    /\ edn.off < Len(edn.data)
    /\ edn.data[edn.off + 1] = ","

====
